---- MODULE Spec2Model ----
(***************************************************************************)
(* Emergency response coordination system.                                 *)
(*                                                                         *)
(* Two state machines share this module:                                   *)
(*   Spec     the backend canister (user profiles, ambulance and police    *)
(*            location stores, SOS alerts) and its public calls;           *)
(*   SpecGps  the ambulance client's GPS conditioning pipelines (the       *)
(*            reported pipeline of processBackendUpdate and the display    *)
(*            pipeline of smoothCoordinate).                               *)
(*                                                                         *)
(* Coordinates are integer offsets of arc from a reference point on the    *)
(* equator: metres in the backend, centimetres in the client.  At these    *)
(* offsets the great-circle distance is the Euclidean one, exactly so      *)
(* along a meridian or along the equator.  Backend time is in seconds,     *)
(* client time in milliseconds.                                            *)
(***************************************************************************)
EXTENDS Integers, Sequences, FiniteSets, TLC

VARIABLES userProfiles, ambulanceLocations, policeLocations, sosAlerts, now,
          backendStateRef, smoothingState, displayLocation, location, gpsStatus,
          lastFix, fixCount, clockMs, effectCount, queryResult, staleView, distanceView,
          sosActive, sosTimer, mySOSAlert, previousAlertIds, audioAvailable, polledAlerts, played

backendVars == <<userProfiles, ambulanceLocations, policeLocations, sosAlerts, now>>
gpsVars == <<backendStateRef, smoothingState, displayLocation, location, gpsStatus,
             lastFix, fixCount, clockMs, effectCount,
          queryResult, staleView, distanceView,
                 sosActive, sosTimer, mySOSAlert, previousAlertIds, audioAvailable, polledAlerts, played>>
vars == <<userProfiles, ambulanceLocations, policeLocations, sosAlerts, now,
          backendStateRef, smoothingState, displayLocation, location, gpsStatus,
          lastFix, fixCount, clockMs, effectCount,
          queryResult, staleView, distanceView,
                 sosActive, sosTimer, mySOSAlert, previousAlertIds, audioAvailable, polledAlerts, played>>

(***************************************************************************)
(* Bounds and input sets                                                   *)
(***************************************************************************)
MaxTicks == 1

StalenessThresholdSec == 15

TickSec == StalenessThresholdSec + 5

Anon == 0

Admin == 1

AmbulancePrincipals == {2}

PolicePrincipals == {4, 5, 6}

Principals == {Anon, Admin} \cup AmbulancePrincipals \cup PolicePrincipals

Coord(lat, lng) == [latitude |-> lat, longitude |-> lng]

PoliceCoords(p) ==
  IF p = Admin THEN {}
  ELSE IF p = 4 THEN {Coord(30, 0), Coord(55, 0)}
  ELSE IF p = 5 THEN {Coord(25, 0)}
  ELSE {Coord(55, 0)}

SosCoords == {Coord(0, 0), Coord(15, 0)}

AmbulanceCoords == {Coord(0, 0)}

ValidPhone == <<"0", "1", "2", "3", "4", "5", "6", "7", "8", "9">>

ShortPhone == <<"1", "2", "3", "4", "5">>

Phones == {ValidPhone, ShortPhone}

Digits == {"0", "1", "2", "3", "4", "5", "6", "7", "8", "9"}

(***************************************************************************)
(* Helpers                                                                 *)
(***************************************************************************)
Abs(x) == IF x < 0 THEN -x ELSE x

Min(a, b) == IF a <= b THEN a ELSE b

RECURSIVE IsqrtIn(_, _, _)
IsqrtIn(n, lo, hi) ==
  IF lo >= hi THEN lo
  ELSE LET mid == (lo + hi + 1) \div 2
       IN IF mid * mid <= n THEN IsqrtIn(n, mid, hi) ELSE IsqrtIn(n, lo, mid - 1)

Isqrt(n) == IsqrtIn(n, 0, Min(n, 46340))

Put(m, k, v) == [x \in DOMAIN m \cup {k} |-> IF x = k THEN v ELSE m[x]]

EmptyMap == [x \in {} |-> 0]

RECURSIVE toArray(_)
toArray(keys) ==
  IF keys = {} THEN <<>>
  ELSE LET k == CHOOSE x \in keys : \A y \in keys : x <= y
       IN <<k>> \o toArray(keys \ {k})

RECURSIVE InsertStable(_, _)
InsertStable(sorted, x) ==
  IF sorted = <<>> THEN <<x>>
  ELSE IF sorted[Len(sorted)][3] <= x[3] THEN Append(sorted, x)
  ELSE Append(InsertStable(SubSeq(sorted, 1, Len(sorted) - 1), x), sorted[Len(sorted)])

(* the candidates left in the order of the store *)
storeOrder(s) == s

RECURSIVE sortByDistance(_)
sortByDistance(s) ==
  IF s = <<>> THEN <<>>
  ELSE InsertStable(sortByDistance(SubSeq(s, 1, Len(s) - 1)), s[Len(s)])

(***************************************************************************)
(* Backend: authorization and helpers                                      *)
(***************************************************************************)
accessRole(p) == IF p = Admin THEN "admin" ELSE IF p = Anon THEN "guest" ELSE "user"

hasPermission(caller) == accessRole(caller) \in {"admin", "user"}

isAdmin(caller) == accessRole(caller) = "admin"

isAmbulance(caller) == caller \in DOMAIN userProfiles /\ userProfiles[caller].role = "ambulance"

isPolice(caller) == caller \in DOMAIN userProfiles /\ userProfiles[caller].role = "police"

(* a distance that keeps the sign of the difference *)
signedDistance(coord1, coord2) ==
  (coord2.latitude - coord1.latitude) + (coord2.longitude - coord1.longitude)

calculateDistance(coord1, coord2) ==
  LET dLat == coord2.latitude - coord1.latitude
      dLon == coord2.longitude - coord1.longitude
  IN IF dLon = 0 THEN Abs(dLat)
     ELSE IF dLat = 0 THEN Abs(dLon)
     ELSE Isqrt(dLat * dLat + dLon * dLon)

validatePhoneNumber(phoneNumber) ==
  Len(phoneNumber) = 10 /\ \A i \in 1..Len(phoneNumber) : phoneNumber[i] \in Digits

Trapped == [status |-> "trap", value |-> <<>>]

Returned(v) == [status |-> "ok", value |-> v]

(***************************************************************************)
(* Backend: update calls.  A call that traps is rolled back, so it leaves  *)
(* every store as it was.                                                  *)
(***************************************************************************)
saveCallerUserProfile(caller, profile) ==
  /\ IF ~hasPermission(caller) \/ ~validatePhoneNumber(profile.phoneNumber)
     THEN UNCHANGED userProfiles
     ELSE userProfiles' =
            IF caller \in DOMAIN userProfiles
            THEN Put(userProfiles, caller,
                     [name |-> profile.name, phoneNumber |-> profile.phoneNumber,
                      role |-> userProfiles[caller].role])
            ELSE Put(userProfiles, caller, profile)
  /\ UNCHANGED <<ambulanceLocations, policeLocations, sosAlerts, now>>

setUserProfile(caller, user, profile) ==
  /\ IF ~isAdmin(caller) \/ ~validatePhoneNumber(profile.phoneNumber)
     THEN UNCHANGED userProfiles
     ELSE userProfiles' = Put(userProfiles, user, profile)
  /\ UNCHANGED <<ambulanceLocations, policeLocations, sosAlerts, now>>

updateAmbulanceLocation(caller, coordinates) ==
  /\ IF ~hasPermission(caller) \/ ~isAmbulance(caller)
     THEN UNCHANGED ambulanceLocations
     ELSE ambulanceLocations' =
            Put(ambulanceLocations, caller,
                [ambulanceId |-> caller, coordinates |-> coordinates, timestamp |-> now])
  /\ UNCHANGED <<userProfiles, policeLocations, sosAlerts, now>>

(* an update that stores the location before it looks at the caller's role *)
storesBeforeRoleCheck(caller, coordinates) ==
  /\ IF ~hasPermission(caller)
     THEN UNCHANGED policeLocations
     ELSE policeLocations' =
            Put(policeLocations, caller,
                [policeId |-> caller, coordinates |-> coordinates, timestamp |-> now])
  /\ UNCHANGED <<userProfiles, ambulanceLocations, sosAlerts, now>>

updatePoliceLocation(caller, coordinates) ==
  /\ IF ~hasPermission(caller) \/ ~isPolice(caller)
     THEN UNCHANGED policeLocations
     ELSE policeLocations' =
            Put(policeLocations, caller,
                [policeId |-> caller, coordinates |-> coordinates, timestamp |-> now])
  /\ UNCHANGED <<userProfiles, ambulanceLocations, sosAlerts, now>>

SosRadiusMeters == 50

SosTargetCount == 2

(* a filter that keeps every stored police location *)
anyDistance(coordinates, loc) == TRUE

withinRadius(coordinates, loc) ==
  calculateDistance(coordinates, loc.coordinates) <= SosRadiusMeters

(* a slice that keeps the whole sorted list *)
allTargets(sortedList) == sortedList

firstTargets(sortedList) == SubSeq(sortedList, 1, Min(SosTargetCount, Len(sortedList)))

targetPolice(pool, coordinates) ==
  LET allPolice == toArray(DOMAIN pool)
      policeWithinRadius == SelectSeq(allPolice, LAMBDA id : withinRadius(coordinates, pool[id]))
      policeWithDistances ==
        [i \in 1..Len(policeWithinRadius) |->
           <<policeWithinRadius[i], pool[policeWithinRadius[i]],
             calculateDistance(coordinates, pool[policeWithinRadius[i]].coordinates)>>]
      sortedList == sortByDistance(policeWithDistances)
      filteredList == firstTargets(sortedList)
  IN [i \in 1..Len(filteredList) |-> filteredList[i][1]]

triggerSOSTraps(caller) == ~hasPermission(caller) \/ ~isAmbulance(caller)

(* a call during which a police location update takes effect after the pool *)
(* was read and before the alert is recorded                                *)
triggerSOSInterleaved(caller, coordinates) ==
  /\ IF triggerSOSTraps(caller)
     THEN UNCHANGED <<sosAlerts, policeLocations>>
     ELSE /\ sosAlerts' =
               Put(sosAlerts, caller,
                   [ambulanceId |-> caller, coordinates |-> coordinates, timestamp |-> now,
                    active |-> TRUE,
                    targetPolice |-> targetPolice(policeLocations, coordinates)])
          /\ policeLocations' =
               [p \in DOMAIN policeLocations |->
                  [policeId |-> p, coordinates |-> Coord(55, 0), timestamp |-> now]]
  /\ UNCHANGED <<userProfiles, ambulanceLocations, now>>

triggerSOS(caller, coordinates) ==
  /\ IF triggerSOSTraps(caller)
     THEN UNCHANGED sosAlerts
     ELSE sosAlerts' =
            Put(sosAlerts, caller,
                [ambulanceId |-> caller, coordinates |-> coordinates, timestamp |-> now,
                 active |-> TRUE, targetPolice |-> targetPolice(policeLocations, coordinates)])
  /\ UNCHANGED <<userProfiles, ambulanceLocations, policeLocations, now>>

(* a deactivation that selects the targets again from the current store *)
retargetedAlert(alert) ==
  [ambulanceId |-> alert.ambulanceId, coordinates |-> alert.coordinates,
   timestamp |-> alert.timestamp, active |-> FALSE,
   targetPolice |-> targetPolice(policeLocations, alert.coordinates)]

updatedAlert(alert) ==
  [ambulanceId |-> alert.ambulanceId, coordinates |-> alert.coordinates,
   timestamp |-> alert.timestamp, active |-> FALSE, targetPolice |-> alert.targetPolice]

deactivateSOS(caller) ==
  /\ IF ~hasPermission(caller) \/ caller \notin DOMAIN sosAlerts
        \/ sosAlerts[caller].ambulanceId # caller
     THEN UNCHANGED sosAlerts
     ELSE sosAlerts' = Put(sosAlerts, caller, updatedAlert(sosAlerts[caller]))
  /\ UNCHANGED <<userProfiles, ambulanceLocations, policeLocations, now>>

deactivateSOSForAmbulance(caller, ambulanceId) ==
  /\ IF ~isAdmin(caller) \/ ambulanceId \notin DOMAIN sosAlerts
     THEN UNCHANGED sosAlerts
     ELSE sosAlerts' = Put(sosAlerts, ambulanceId, updatedAlert(sosAlerts[ambulanceId]))
  /\ UNCHANGED <<userProfiles, ambulanceLocations, policeLocations, now>>

(***************************************************************************)
(* Backend: queries.  A query reads the stores and changes nothing; its    *)
(* reply is a function of the stores and the caller.                       *)
(***************************************************************************)
(* a filter that lets every police caller through *)
anyPoliceCaller(alert, caller) == TRUE

isTargetPolice(alert, caller) ==
  \E i \in 1..Len(alert.targetPolice) : alert.targetPolice[i] = caller

sosAlertsArray ==
  LET keys == toArray(DOMAIN sosAlerts)
  IN [i \in 1..Len(keys) |-> sosAlerts[keys[i]]]

getActiveSOSAlerts(caller) ==
  IF ~hasPermission(caller) THEN Trapped
  ELSE IF isAdmin(caller)
       THEN Returned(SelectSeq(sosAlertsArray, LAMBDA alert : alert.active))
  ELSE IF ~isPolice(caller) THEN Trapped
  ELSE Returned(SelectSeq(sosAlertsArray,
                          LAMBDA alert : alert.active /\ isTargetPolice(alert, caller)))

getSOSAlert(caller, alertId) ==
  IF ~hasPermission(caller) THEN Trapped
  ELSE IF alertId \notin DOMAIN sosAlerts THEN Returned(<<>>)
  ELSE IF isAdmin(caller) THEN Returned(<<sosAlerts[alertId]>>)
  ELSE IF ~isPolice(caller) THEN Trapped
  ELSE IF ~isTargetPolice(sosAlerts[alertId], caller) THEN Returned(<<>>)
  ELSE Returned(<<sosAlerts[alertId]>>)

(* Time.now() advances between calls *)
Tick ==
  /\ now < MaxTicks * TickSec
  /\ now' = now + TickSec
  /\ UNCHANGED <<userProfiles, ambulanceLocations, policeLocations, sosAlerts>>

(***************************************************************************)
(* Client: GPS conditioning (utils/locationSmoothing)                      *)
(***************************************************************************)
MAX_ACCURACY_METERS == 50

MAX_JUMP_METERS == 200

MIN_TIME_BETWEEN_FIXES == 500

DISPLAY_MOVEMENT_THRESHOLD_METERS == 5

DISPLAY_SMOOTHING_ALPHA_TENTHS == 3

BACKEND_MOVEMENT_THRESHOLD_METERS == 8

BACKEND_SMOOTHING_ALPHA_TENTHS == 2

Null == [null |-> TRUE]

(* alpha * delta on fixed-point coordinates, rounded toward zero *)
Scaled(alphaTenths, delta) ==
  IF delta >= 0 THEN (alphaTenths * delta) \div 10 ELSE -((alphaTenths * (-delta)) \div 10)

(* centimetres between two points *)
haversineDistance(lat1, lon1, lat2, lon2) ==
  LET dLat == lat2 - lat1
      dLon == lon2 - lon1
  IN Isqrt(dLat * dLat + dLon * dLon)

(* a display pipeline without the movement gate *)
smoothsAlways(newLat, newLng, previous) ==
  IF previous = Null
  THEN [lat |-> newLat, lng |-> newLng, lastRawLat |-> newLat, lastRawLng |-> newLng,
        lastUpdateTime |-> clockMs]
  ELSE [lat |-> previous.lat + Scaled(DISPLAY_SMOOTHING_ALPHA_TENTHS, newLat - previous.lat),
        lng |-> previous.lng + Scaled(DISPLAY_SMOOTHING_ALPHA_TENTHS, newLng - previous.lng),
        lastRawLat |-> newLat, lastRawLng |-> newLng, lastUpdateTime |-> clockMs]

smoothCoordinate(newLat, newLng, previous) ==
  IF previous = Null
  THEN [lat |-> newLat, lng |-> newLng, lastRawLat |-> newLat, lastRawLng |-> newLng,
        lastUpdateTime |-> clockMs]
  ELSE LET distanceMeters ==
             haversineDistance(previous.lastRawLat, previous.lastRawLng, newLat, newLng)
       IN IF distanceMeters < DISPLAY_MOVEMENT_THRESHOLD_METERS * 100
          THEN [lat |-> previous.lat, lng |-> previous.lng,
                lastRawLat |-> newLat, lastRawLng |-> newLng, lastUpdateTime |-> clockMs]
          ELSE [lat |-> previous.lat
                          + Scaled(DISPLAY_SMOOTHING_ALPHA_TENTHS, newLat - previous.lat),
                lng |-> previous.lng
                          + Scaled(DISPLAY_SMOOTHING_ALPHA_TENTHS, newLng - previous.lng),
                lastRawLat |-> newLat, lastRawLng |-> newLng, lastUpdateTime |-> clockMs]

(* an accuracy gate that lets every fix through *)
neverPoor(accuracy) == FALSE

(* an accuracy gate that also stops a fix of unknown accuracy *)
poorOrUnknown(accuracy) == ~accuracy.known \/ accuracy.meters > MAX_ACCURACY_METERS

poorAccuracy(accuracy) == accuracy.known /\ accuracy.meters > MAX_ACCURACY_METERS

(* a pipeline that takes the first fix before it looks at the accuracy *)
firstFixUnchecked(newLat, newLng, accuracy, previous) ==
  IF previous = Null
  THEN [coords |-> [latitude |-> newLat, longitude |-> newLng], status |-> "initial"]
  ELSE IF poorAccuracy(accuracy) THEN Null
  ELSE [coords |-> [latitude |-> previous.lat, longitude |-> previous.lng], status |-> "held"]

(* an outlier test that does not look at the time since the last update *)
jumpAtAnyInterval(distanceMeters, timeDelta) == distanceMeters > MAX_JUMP_METERS * 100

implausibleJump(distanceMeters, timeDelta) ==
  distanceMeters > MAX_JUMP_METERS * 100 /\ timeDelta < MIN_TIME_BETWEEN_FIXES

(* a pipeline whose gates measure from the accepted coordinate *)
gatesFromAccepted(newLat, newLng, accuracy, previous) ==
  IF poorAccuracy(accuracy) THEN Null
  ELSE IF previous = Null
  THEN [coords |-> [latitude |-> newLat, longitude |-> newLng], status |-> "initial"]
  ELSE LET distanceMeters == haversineDistance(previous.lat, previous.lng, newLat, newLng)
           timeDelta == clockMs - previous.lastUpdateTime
       IN IF implausibleJump(distanceMeters, timeDelta)
          THEN Null
          ELSE IF distanceMeters < BACKEND_MOVEMENT_THRESHOLD_METERS * 100
          THEN [coords |-> [latitude |-> previous.lat, longitude |-> previous.lng],
                status |-> "held"]
          ELSE [coords |->
                  [latitude |-> previous.lat
                      + Scaled(BACKEND_SMOOTHING_ALPHA_TENTHS, newLat - previous.lat),
                   longitude |-> previous.lng
                      + Scaled(BACKEND_SMOOTHING_ALPHA_TENTHS, newLng - previous.lng)],
                status |-> "smoothed"]

processBackendUpdate(newLat, newLng, accuracy, previous) ==
  IF poorAccuracy(accuracy) THEN Null
  ELSE IF previous = Null
  THEN [coords |-> [latitude |-> newLat, longitude |-> newLng], status |-> "initial"]
  ELSE LET distanceMeters ==
             haversineDistance(previous.lastRawLat, previous.lastRawLng, newLat, newLng)
           timeDelta == clockMs - previous.lastUpdateTime
       IN IF implausibleJump(distanceMeters, timeDelta)
          THEN Null
          ELSE IF distanceMeters < BACKEND_MOVEMENT_THRESHOLD_METERS * 100
          THEN [coords |-> [latitude |-> previous.lat, longitude |-> previous.lng],
                status |-> "held"]
          ELSE [coords |->
                  [latitude |-> previous.lat
                      + Scaled(BACKEND_SMOOTHING_ALPHA_TENTHS, newLat - previous.lat),
                   longitude |-> previous.lng
                      + Scaled(BACKEND_SMOOTHING_ALPHA_TENTHS, newLng - previous.lng)],
                status |-> "smoothed"]

(* a state update that stores the time since the last update *)
stampsInterval(newLat, newLng, smoothedLat, smoothedLng, previous) ==
  [lat |-> smoothedLat, lng |-> smoothedLng, lastRawLat |-> newLat, lastRawLng |-> newLng,
   lastUpdateTime |-> IF previous = Null THEN clockMs ELSE clockMs - previous.lastUpdateTime]

(* a state update that keeps the raw position of the first fix *)
keepsLastRaw(newLat, newLng, smoothedLat, smoothedLng, previous) ==
  [lat |-> smoothedLat, lng |-> smoothedLng,
   lastRawLat |-> IF previous = Null THEN newLat ELSE previous.lastRawLat,
   lastRawLng |-> IF previous = Null THEN newLng ELSE previous.lastRawLng,
   lastUpdateTime |-> clockMs]

updateBackendState(newLat, newLng, smoothedLat, smoothedLng, previous) ==
  [lat |-> smoothedLat, lng |-> smoothedLng, lastRawLat |-> newLat, lastRawLng |-> newLng,
   lastUpdateTime |-> clockMs]

(* a callback that shows every rejection as an outlier *)
watchPositionOneReason(newLat, newLng, accuracy) ==
  LET result == processBackendUpdate(newLat, newLng, accuracy, backendStateRef)
  IN /\ displayLocation' = [latitude |-> newLat, longitude |-> newLng]
     /\ lastFix' = [lat |-> newLat, lng |-> newLng, accuracy |-> accuracy, result |-> result]
     /\ IF result = Null
        THEN /\ gpsStatus' = "Filtering GPS outlier..."
             /\ UNCHANGED <<backendStateRef, location>>
        ELSE /\ backendStateRef' =
                  updateBackendState(newLat, newLng, result.coords.latitude,
                                     result.coords.longitude, backendStateRef)
             /\ location' = result.coords
             /\ gpsStatus' = "GPS active"

(* a callback that restarts the interval at a rejected fix *)
watchPositionStampsRejection(newLat, newLng, accuracy) ==
  LET result == processBackendUpdate(newLat, newLng, accuracy, backendStateRef)
  IN /\ displayLocation' = [latitude |-> newLat, longitude |-> newLng]
     /\ lastFix' = [lat |-> newLat, lng |-> newLng, accuracy |-> accuracy, result |-> result]
     /\ IF result = Null
        THEN /\ gpsStatus' = IF poorAccuracy(accuracy) THEN "GPS accuracy poor"
                             ELSE "Filtering GPS outlier..."
             /\ backendStateRef' =
                  IF backendStateRef = Null THEN Null
                  ELSE [backendStateRef EXCEPT !.lastUpdateTime = clockMs]
             /\ UNCHANGED location
        ELSE /\ backendStateRef' =
                  updateBackendState(newLat, newLng, result.coords.latitude,
                                     result.coords.longitude, backendStateRef)
             /\ location' = result.coords
             /\ gpsStatus' = "GPS active"

(* AmbulanceInterface: the watchPosition success callback *)
watchPosition(newLat, newLng, accuracy) ==
  LET result == processBackendUpdate(newLat, newLng, accuracy, backendStateRef)
  IN /\ displayLocation' = [latitude |-> newLat, longitude |-> newLng]
     /\ lastFix' = [lat |-> newLat, lng |-> newLng, accuracy |-> accuracy, result |-> result]
     /\ IF result = Null
        THEN /\ gpsStatus' = IF poorAccuracy(accuracy) THEN "GPS accuracy poor"
                             ELSE "Filtering GPS outlier..."
             /\ UNCHANGED <<backendStateRef, location>>
        ELSE /\ backendStateRef' =
                  updateBackendState(newLat, newLng, result.coords.latitude,
                                     result.coords.longitude, backendStateRef)
             /\ location' = result.coords
             /\ gpsStatus' = "GPS active"

(* markers drawn from the reported location, the output of the other pipeline *)
reportedMarkers ==
  IF location = Null THEN EmptyMap
  ELSE [id \in {"ambulance"} |-> [lat |-> location.latitude, lng |-> location.longitude]]

(* AmbulanceInterface: the markers handed to the map *)
mapMarkers ==
  IF displayLocation = Null THEN EmptyMap
  ELSE [id \in {"ambulance"} |-> [lat |-> displayLocation.latitude,
                                  lng |-> displayLocation.longitude]]

(* a marker effect that keeps one smoothing state for all markers *)
updateMarkersShared(markers) ==
  LET tracked == DOMAIN smoothingState
      shared == IF tracked = {} THEN Null
                ELSE smoothingState[CHOOSE id \in tracked : TRUE]
  IN smoothingState' =
       [id \in DOMAIN markers |-> smoothCoordinate(markers[id].lat, markers[id].lng, shared)]

(* RealtimeMap: the marker update effect *)
updateMarkers(markers) ==
  smoothingState' =
    [id \in DOMAIN markers |->
       smoothCoordinate(markers[id].lat, markers[id].lng,
                        IF id \in DOMAIN smoothingState THEN smoothingState[id] ELSE Null)]

(***************************************************************************)
(* Backend specification                                                   *)
(***************************************************************************)
RoleFor(p) == IF p \in AmbulancePrincipals THEN "ambulance" ELSE "police"

ProfileInputs(p) == {[name |-> "unit", phoneNumber |-> ph, role |-> RoleFor(p)] : ph \in Phones}

Init ==
  /\ userProfiles = EmptyMap
  /\ ambulanceLocations = EmptyMap
  /\ policeLocations = EmptyMap
  /\ sosAlerts = EmptyMap
  /\ now = 0
  /\ backendStateRef = Null
  /\ smoothingState = EmptyMap
  /\ displayLocation = Null
  /\ location = Null
  /\ gpsStatus = "Acquiring GPS..."
  /\ lastFix = Null
  /\ fixCount = 0
  /\ clockMs = 0
  /\ effectCount = 0
  /\ queryResult = Null
  /\ staleView = Null
  /\ distanceView = Null
  /\ sosActive = FALSE
  /\ sosTimer = Null
  /\ mySOSAlert = Null
  /\ previousAlertIds = {}
  /\ audioAvailable = TRUE
  /\ polledAlerts = <<>>
  /\ played = FALSE

SaveCallerUserProfile ==
  /\ \E caller \in Principals : \E profile \in ProfileInputs(caller) :
       saveCallerUserProfile(caller, profile)
  /\ UNCHANGED gpsVars

UpdateAmbulanceLocation ==
  /\ \E caller \in Principals : \E c \in AmbulanceCoords : updateAmbulanceLocation(caller, c)
  /\ UNCHANGED gpsVars

UpdatePoliceLocation ==
  /\ \E caller \in Principals : \E c \in PoliceCoords(caller) : updatePoliceLocation(caller, c)
  /\ UNCHANGED gpsVars

TriggerSOS ==
  /\ \E caller \in Principals : \E c \in SosCoords : triggerSOS(caller, c)
  /\ UNCHANGED gpsVars

DeactivateSOS ==
  /\ \E caller \in Principals : deactivateSOS(caller)
  /\ UNCHANGED gpsVars

DeactivateSOSForAmbulance ==
  /\ \E caller \in Principals : \E a \in AmbulancePrincipals :
       deactivateSOSForAmbulance(caller, a)
  /\ UNCHANGED gpsVars

AdvanceTime ==
  /\ Tick
  /\ UNCHANGED gpsVars

Next ==
  \/ SaveCallerUserProfile
  \/ UpdateAmbulanceLocation
  \/ UpdatePoliceLocation
  \/ TriggerSOS
  \/ DeactivateSOS
  \/ DeactivateSOSForAmbulance
  \/ AdvanceTime

Spec == Init /\ [][Next]_vars

(***************************************************************************)
(* Properties of SOS targeting                                             *)
(***************************************************************************)
Range(seq) == {seq[i] : i \in 1..Len(seq)}

SameSnapshot(a1, a2) ==
  /\ a1.targetPolice = a2.targetPolice
  /\ a1.coordinates = a2.coordinates
  /\ a1.timestamp = a2.timestamp

(* A call of triggerSOS by an authorized ambulance, as a step that records or *)
(* replaces the caller's alert                                               *)
Triggered(caller, c) ==
  /\ sosAlerts' # sosAlerts
  /\ caller \in DOMAIN sosAlerts'
  /\ sosAlerts'[caller].active
  /\ sosAlerts'[caller].coordinates = c
  /\ ~triggerSOSTraps(caller)
  /\ triggerSOS(caller, c)

DistanceTo(c, id) == calculateDistance(c, policeLocations[id].coordinates)

(* C1: once an alert exists, no updatePoliceLocation, updateAmbulanceLocation, *)
(* deactivateSOS or deactivateSOSForAmbulance step (nor the passing of time or *)
(* a profile save) changes its target list, its coordinates or its timestamp.  *)
C1_SnapshotImmutable ==
  [][(/\ sosAlerts' # sosAlerts
      /\ \/ UpdatePoliceLocation \/ UpdateAmbulanceLocation \/ DeactivateSOS
         \/ DeactivateSOSForAmbulance \/ AdvanceTime \/ SaveCallerUserProfile)
       => \A a \in DOMAIN sosAlerts :
            a \in DOMAIN sosAlerts' /\ SameSnapshot(sosAlerts'[a], sosAlerts[a])]_vars

(* a deactivated alert whose targets differ from what the store would give now, *)
(* one target having reported a newer location that lies outside the radius     *)
C1_Witness ==
  \E a \in DOMAIN sosAlerts :
    /\ ~sosAlerts[a].active
    /\ sosAlerts[a].targetPolice # targetPolice(policeLocations, sosAlerts[a].coordinates)
    /\ \E p \in Range(sosAlerts[a].targetPolice) :
         /\ policeLocations[p].timestamp > sosAlerts[a].timestamp
         /\ DistanceTo(sosAlerts[a].coordinates, p) > SosRadiusMeters

(* C2: at a triggerSOS step no police unit whose stored location is older than *)
(* the staleness threshold is recorded as a target.                            *)
C2_StaleExcluded ==
  [][\A caller \in Principals : \A c \in SosCoords :
       Triggered(caller, c)
         => \A p \in Range(sosAlerts'[caller].targetPolice) :
              now - policeLocations[p].timestamp <= StalenessThresholdSec]_vars

(* a fresh alert records a target whose stored location is older than the   *)
(* staleness threshold                                                      *)
C2_Witness ==
  \E a \in DOMAIN sosAlerts :
    /\ sosAlerts[a].active
    /\ sosAlerts[a].timestamp = now
    /\ \E p \in Range(sosAlerts[a].targetPolice) :
         now - policeLocations[p].timestamp > StalenessThresholdSec

(* C3: every stored alert has between 0 and k = 2 targets, and when no police  *)
(* location qualifies a triggerSOS call by an authorized ambulance records the *)
(* alert, active and with an empty target list.                                *)
NoneQualifies(c) ==
  \A p \in DOMAIN policeLocations : DistanceTo(c, p) > SosRadiusMeters

C3_TargetCount ==
  /\ \A a \in DOMAIN sosAlerts : Len(sosAlerts[a].targetPolice) \in 0..SosTargetCount
  /\ \A caller \in Principals : \A c \in SosCoords :
       (hasPermission(caller) /\ isAmbulance(caller) /\ NoneQualifies(c))
         => ENABLED (/\ triggerSOS(caller, c)
                     /\ caller \in DOMAIN sosAlerts'
                     /\ sosAlerts'[caller].active
                     /\ sosAlerts'[caller].coordinates = c
                     /\ sosAlerts'[caller].timestamp = now
                     /\ sosAlerts'[caller].targetPolice = <<>>)

(* an active alert was recorded with no target while a police location is stored *)
C3_Witness ==
  \E a \in DOMAIN sosAlerts :
    /\ sosAlerts[a].active
    /\ sosAlerts[a].targetPolice = <<>>
    /\ sosAlerts[a].timestamp = now
    /\ NoneQualifies(sosAlerts[a].coordinates)
    /\ DOMAIN policeLocations # {}

(* C4: whenever an authorized ambulance calls triggerSOS, every target the     *)
(* call records has a location in the police store as it is at the call, and   *)
(* that location is within the targeting radius of the SOS coordinates; a      *)
(* police user without a stored location is not recorded.                      *)
C4_TargetsWithinRadius ==
  [][sosAlerts' # sosAlerts
       => \A caller \in Principals : \A c \in SosCoords :
            Triggered(caller, c)
              => \A p \in Range(sosAlerts'[caller].targetPolice) :
                   /\ p \in DOMAIN policeLocations
                   /\ DistanceTo(c, p) <= SosRadiusMeters]_vars

(* a fresh alert with a target, with one stored police location out of the     *)
(* radius and one registered police user without a stored location             *)
C4_Witness ==
  \E a \in DOMAIN sosAlerts :
    /\ sosAlerts[a].timestamp = now
    /\ sosAlerts[a].targetPolice = targetPolice(policeLocations, sosAlerts[a].coordinates)
    /\ sosAlerts[a].targetPolice # <<>>
    /\ \E p \in DOMAIN policeLocations :
         /\ DistanceTo(sosAlerts[a].coordinates, p) > SosRadiusMeters
         /\ p \notin Range(sosAlerts[a].targetPolice)
    /\ \E q \in PolicePrincipals : isPolice(q) /\ q \notin DOMAIN policeLocations

(* C5: whenever an authorized ambulance calls triggerSOS, the targets recorded *)
(* are the first k of the candidates within the radius, nearest first and      *)
(* equal distances by id: the list has min(k, candidates) entries, is ordered  *)
(* by (distance, id), and no candidate left out precedes a selected one.       *)
NearestFirst(c, targets) ==
  LET d == [p \in DOMAIN policeLocations |-> DistanceTo(c, p)]
      eligible == {p \in DOMAIN policeLocations : d[p] <= SosRadiusMeters}
      selected == Range(targets)
      before(p, q) == d[p] < d[q] \/ (d[p] = d[q] /\ p < q)
  IN /\ selected \subseteq eligible
     /\ Len(targets) = Min(SosTargetCount, Cardinality(eligible))
     /\ \A i, j \in 1..Len(targets) : i < j => before(targets[i], targets[j])
     /\ \A p \in eligible \ selected : \A q \in selected : before(q, p)

C5_NearestK ==
  [][sosAlerts' # sosAlerts
       => \A caller \in Principals : \A c \in SosCoords :
            Triggered(caller, c) => NearestFirst(c, sosAlerts'[caller].targetPolice)]_vars

(* candidates at 10 m, 15 m and 40 m of the SOS: the two nearest are recorded, *)
(* nearest first, and here against the order of their ids                      *)
C5_Witness ==
  \E a \in DOMAIN sosAlerts :
    /\ sosAlerts[a].timestamp = now
    /\ sosAlerts[a].coordinates = Coord(15, 0)
    /\ DOMAIN policeLocations = {4, 5, 6}
    /\ DistanceTo(Coord(15, 0), 5) = 10
    /\ DistanceTo(Coord(15, 0), 4) = 15
    /\ DistanceTo(Coord(15, 0), 6) = 40
    /\ sosAlerts[a].targetPolice = <<5, 4>>

(* C6: at a triggerSOS step every recorded target is within 30 m of the SOS    *)
(* coordinates.                                                                *)
SpecifiedSosRadiusMeters == 30

C6_ThirtyMetreRadius ==
  [][\A caller \in Principals : \A c \in SosCoords :
       Triggered(caller, c)
         => \A p \in Range(sosAlerts'[caller].targetPolice) :
              DistanceTo(c, p) <= SpecifiedSosRadiusMeters]_vars

(* a fresh alert records a target that the store places beyond 30 m and      *)
(* within the radius of the code                                            *)
C6_Witness ==
  \E a \in DOMAIN sosAlerts :
    /\ sosAlerts[a].active
    /\ sosAlerts[a].targetPolice = targetPolice(policeLocations, sosAlerts[a].coordinates)
    /\ \E p \in Range(sosAlerts[a].targetPolice) :
         /\ DistanceTo(sosAlerts[a].coordinates, p) > SpecifiedSosRadiusMeters
         /\ DistanceTo(sosAlerts[a].coordinates, p) <= SosRadiusMeters

(* C7: a police caller gets from getActiveSOSAlerts exactly the active alerts  *)
(* that target the caller, each once; an admin gets exactly the active alerts; *)
(* no reply holds a deactivated alert; and getSOSAlert gives a police caller   *)
(* nothing of an alert that does not target the caller.                        *)
ActiveAlerts == {sosAlerts[a] : a \in {x \in DOMAIN sosAlerts : sosAlerts[x].active}}

ActiveAlertsTargeting(p) == {alert \in ActiveAlerts : p \in Range(alert.targetPolice)}

ReturnsExactly(r, alerts) ==
  /\ r.status = "ok"
  /\ Range(r.value) = alerts
  /\ Len(r.value) = Cardinality(alerts)

C7_PoliceSeeOwnActiveAlerts ==
  \A caller \in Principals :
    /\ (hasPermission(caller) /\ isPolice(caller) /\ ~isAdmin(caller))
         => /\ ReturnsExactly(getActiveSOSAlerts(caller), ActiveAlertsTargeting(caller))
            /\ \A a \in DOMAIN sosAlerts :
                 caller \notin Range(sosAlerts[a].targetPolice)
                   => getSOSAlert(caller, a) = Returned(<<>>)
    /\ isAdmin(caller) => ReturnsExactly(getActiveSOSAlerts(caller), ActiveAlerts)
    /\ \A alert \in Range(getActiveSOSAlerts(caller).value) : alert.active

(* an active alert targets police 5 and not the registered police 4 *)
C7_Witness ==
  \E a \in DOMAIN sosAlerts :
    /\ sosAlerts[a].active
    /\ isPolice(4) /\ isPolice(5)
    /\ 5 \in Range(sosAlerts[a].targetPolice)
    /\ 4 \notin Range(sosAlerts[a].targetPolice)
    /\ getActiveSOSAlerts(5).value = <<sosAlerts[a]>>
    /\ getActiveSOSAlerts(4).value = <<>>

(***************************************************************************)
(* Client specification                                                    *)
(***************************************************************************)
MaxFixes == 3

MaxClockTicks == 2

ClockTickMs == MIN_TIME_BETWEEN_FIXES \div 2

FixCoords == {<<0, 0>>, <<0, 300>>, <<600, 0>>, <<1200, 0>>, <<25000, 0>>}

Accuracies == {[known |-> FALSE, meters |-> 0], [known |-> TRUE, meters |-> 20],
               [known |-> TRUE, meters |-> 65]}

WatchPosition ==
  /\ fixCount < MaxFixes
  /\ fixCount' = fixCount + 1
  /\ \E c \in FixCoords : \E accuracy \in Accuracies : watchPosition(c[1], c[2], accuracy)
  /\ UNCHANGED <<smoothingState, clockMs, effectCount, queryResult, staleView, distanceView,
                 sosActive, sosTimer, mySOSAlert, previousAlertIds, audioAvailable, polledAlerts, played>>
  /\ UNCHANGED backendVars

UpdateMarkers ==
  /\ displayLocation # Null
  /\ updateMarkers(mapMarkers)
  /\ UNCHANGED <<backendStateRef, displayLocation, location, gpsStatus, lastFix, fixCount,
                 clockMs, effectCount, queryResult, staleView, distanceView,
                 sosActive, sosTimer, mySOSAlert, previousAlertIds, audioAvailable, polledAlerts, played>>
  /\ UNCHANGED backendVars

ClockTick ==
  /\ clockMs < MaxClockTicks * ClockTickMs
  /\ clockMs' = clockMs + ClockTickMs
  /\ UNCHANGED <<backendStateRef, smoothingState, displayLocation, location, gpsStatus,
                 lastFix, fixCount, effectCount, queryResult, staleView, distanceView,
                 sosActive, sosTimer, mySOSAlert, previousAlertIds, audioAvailable, polledAlerts, played>>
  /\ UNCHANGED backendVars

GpsNext ==
  \/ WatchPosition
  \/ UpdateMarkers
  \/ ClockTick

SpecGps == Init /\ [][GpsNext]_vars

(***************************************************************************)
(* Properties of GPS conditioning.  The reported pipeline is               *)
(* processBackendUpdate with backendStateRef; the display pipeline is      *)
(* smoothCoordinate with the map's smoothingState.                         *)
(***************************************************************************)
WatchStep == fixCount' = fixCount + 1

AccuracyAbove(accuracy, max) == accuracy.known /\ accuracy.meters > max

Tracked(id) == id \in DOMAIN smoothingState

DistanceFrom(state, lat, lng) == haversineDistance(state.lat, state.lng, lat, lng)

AcceptedVerbatim(state, lat, lng) ==
  /\ state # Null
  /\ state.lat = lat /\ state.lng = lng
  /\ state.lastRawLat = lat /\ state.lastRawLng = lng

(* C8 as stated: the first fix of the reported pipeline is accepted verbatim  *)
(* with status initial, whatever its coordinates and accuracy.               *)
C8_FirstFixAlwaysAccepted ==
  [][(WatchStep /\ backendStateRef = Null)
       => /\ lastFix'.result # Null
          /\ lastFix'.result.status = "initial"
          /\ lastFix'.result.coords = [latitude |-> lastFix'.lat, longitude |-> lastFix'.lng]
          /\ AcceptedVerbatim(backendStateRef', lastFix'.lat, lastFix'.lng)]_vars

(* C8: with no prior state, the reported pipeline accepts a fix verbatim with *)
(* status initial when its accuracy is unknown or at most MAX_ACCURACY_METERS, *)
(* and rejects it, staying without state, when its accuracy is known and      *)
(* above; the display pipeline accepts its first coordinate verbatim always.  *)
C8_FirstFixAcceptedUnlessPoor ==
  [][/\ (WatchStep /\ backendStateRef = Null)
          => IF AccuracyAbove(lastFix'.accuracy, MAX_ACCURACY_METERS)
             THEN /\ lastFix'.result = Null
                  /\ backendStateRef' = Null
                  /\ location' = location
             ELSE /\ lastFix'.result # Null
                  /\ lastFix'.result.status = "initial"
                  /\ lastFix'.result.coords =
                       [latitude |-> lastFix'.lat, longitude |-> lastFix'.lng]
                  /\ location' = lastFix'.result.coords
                  /\ AcceptedVerbatim(backendStateRef', lastFix'.lat, lastFix'.lng)
     /\ (UpdateMarkers /\ ~Tracked("ambulance"))
          => AcceptedVerbatim(smoothingState'["ambulance"], displayLocation.latitude,
                              displayLocation.longitude)]_vars

(* the second fix was accepted as the initial one, the first having been      *)
(* rejected, while the display pipeline holds a state of its own              *)
C8_Witness ==
  /\ fixCount = 2
  /\ lastFix.result # Null
  /\ lastFix.result.status = "initial"
  /\ lastFix.accuracy.known
  /\ AcceptedVerbatim(backendStateRef, lastFix.lat, lastFix.lng)
  /\ Tracked("ambulance")

(* C9 as stated: while tracking, a fix of known accuracy above the maximum    *)
(* changes the state of neither the reported nor the display pipeline.        *)
C9_PoorAccuracyChangesNoState ==
  [][/\ (WatchStep /\ backendStateRef # Null
           /\ AccuracyAbove(lastFix'.accuracy, MAX_ACCURACY_METERS))
          => lastFix'.result = Null /\ backendStateRef' = backendStateRef
     /\ (UpdateMarkers /\ Tracked("ambulance")
           /\ AccuracyAbove(lastFix.accuracy, MAX_ACCURACY_METERS))
          => smoothingState' = smoothingState]_vars

(* C9: a fix of known accuracy above MAX_ACCURACY_METERS is rejected by the   *)
(* reported pipeline whatever its displacement, leaving backendStateRef and   *)
(* the reported location unchanged and the status at poor accuracy; the       *)
(* display pipeline has no accuracy gate: the fix becomes the display         *)
(* location and the next marker update takes it as its last raw position.     *)
C9_PoorAccuracyRejectedWhenReported ==
  [][/\ (WatchStep /\ AccuracyAbove(lastFix'.accuracy, MAX_ACCURACY_METERS))
          => /\ lastFix'.result = Null
             /\ backendStateRef' = backendStateRef
             /\ location' = location
             /\ gpsStatus' = "GPS accuracy poor"
             /\ displayLocation' = [latitude |-> lastFix'.lat, longitude |-> lastFix'.lng]
     /\ UpdateMarkers
          => /\ smoothingState'["ambulance"].lastRawLat = displayLocation.latitude
             /\ smoothingState'["ambulance"].lastRawLng = displayLocation.longitude]_vars

(* while tracking, a displaced fix of poor accuracy was rejected by the       *)
(* reported pipeline and taken by the display pipeline                        *)
C9_Witness ==
  /\ backendStateRef # Null
  /\ lastFix.result = Null
  /\ AccuracyAbove(lastFix.accuracy, MAX_ACCURACY_METERS)
  /\ gpsStatus = "GPS accuracy poor"
  /\ backendStateRef.lastRawLat # lastFix.lat
  /\ Tracked("ambulance")
  /\ smoothingState["ambulance"].lastRawLat = lastFix.lat
  /\ smoothingState["ambulance"].lat # backendStateRef.lat

SameFixAgain ==
  /\ lastFix # Null
  /\ lastFix.result # Null
  /\ lastFix'.lat = lastFix.lat
  /\ lastFix'.lng = lastFix.lng

(* C10 as stated: each further application of the same raw fix, lying at or   *)
(* beyond the movement threshold from the accepted coordinate, moves the      *)
(* accepted coordinate nearer to it.                                          *)
C10_RepeatedFixConverges ==
  [][/\ (WatchStep /\ SameFixAgain
           /\ ~AccuracyAbove(lastFix'.accuracy, MAX_ACCURACY_METERS)
           /\ DistanceFrom(backendStateRef, lastFix'.lat, lastFix'.lng)
                >= BACKEND_MOVEMENT_THRESHOLD_METERS * 100)
          => DistanceFrom(backendStateRef', lastFix'.lat, lastFix'.lng)
               < DistanceFrom(backendStateRef, lastFix'.lat, lastFix'.lng)
     /\ (UpdateMarkers /\ Tracked("ambulance")
           /\ smoothingState["ambulance"].lastRawLat = displayLocation.latitude
           /\ smoothingState["ambulance"].lastRawLng = displayLocation.longitude
           /\ DistanceFrom(smoothingState["ambulance"], displayLocation.latitude,
                           displayLocation.longitude)
                >= DISPLAY_MOVEMENT_THRESHOLD_METERS * 100)
          => DistanceFrom(smoothingState'["ambulance"], displayLocation.latitude,
                          displayLocation.longitude)
               < DistanceFrom(smoothingState["ambulance"], displayLocation.latitude,
                              displayLocation.longitude)]_vars

(* C10: an accepted fix never moves the accepted coordinate away from it, and *)
(* a smoothed one moves it nearer; the same raw fix applied again is held:    *)
(* the accepted coordinate stays where the first application left it, at any  *)
(* distance from the raw fix.  The same holds for the display pipeline.       *)
C10_RepeatedFixHeld ==
  [][/\ (WatchStep /\ backendStateRef # Null /\ lastFix'.result # Null)
          => LET before == DistanceFrom(backendStateRef, lastFix'.lat, lastFix'.lng)
                 after == DistanceFrom(backendStateRef', lastFix'.lat, lastFix'.lng)
             IN /\ after <= before
                /\ (/\ lastFix'.result.status = "smoothed"
                    /\ before >= BACKEND_MOVEMENT_THRESHOLD_METERS * 100)
                     => after < before
     /\ (WatchStep /\ SameFixAgain
           /\ ~AccuracyAbove(lastFix'.accuracy, MAX_ACCURACY_METERS))
          => /\ lastFix'.result # Null
             /\ lastFix'.result.status = "held"
             /\ backendStateRef'.lat = backendStateRef.lat
             /\ backendStateRef'.lng = backendStateRef.lng
     /\ (smoothingState' # smoothingState /\ Tracked("ambulance"))
          => /\ DistanceFrom(smoothingState'["ambulance"], displayLocation.latitude,
                             displayLocation.longitude)
                  <= DistanceFrom(smoothingState["ambulance"], displayLocation.latitude,
                                  displayLocation.longitude)
             /\ (/\ smoothingState["ambulance"].lastRawLat = displayLocation.latitude
                 /\ smoothingState["ambulance"].lastRawLng = displayLocation.longitude)
                  => /\ smoothingState'["ambulance"].lat = smoothingState["ambulance"].lat
                     /\ smoothingState'["ambulance"].lng = smoothingState["ambulance"].lng]_vars

(* the same raw fix was applied twice: smoothed the first time, held the      *)
(* second, and the accepted coordinate is still beyond the threshold from it  *)
C10_Witness ==
  /\ fixCount = 3
  /\ lastFix.result # Null
  /\ lastFix.result.status = "held"
  /\ backendStateRef.lastRawLat = lastFix.lat
  /\ backendStateRef.lastRawLng = lastFix.lng
  /\ backendStateRef.lat # 0
  /\ DistanceFrom(backendStateRef, lastFix.lat, lastFix.lng)
       >= BACKEND_MOVEMENT_THRESHOLD_METERS * 100

(* jump of the coming fix from the last raw coordinate of the reported state, *)
(* and the time since that state was last updated                             *)
Jump == haversineDistance(backendStateRef.lastRawLat, backendStateRef.lastRawLng,
                          lastFix'.lat, lastFix'.lng)

SinceLastUpdate == clockMs - backendStateRef.lastUpdateTime

TrackingStep ==
  /\ WatchStep
  /\ backendStateRef # Null
  /\ ~AccuracyAbove(lastFix'.accuracy, MAX_ACCURACY_METERS)

(* C11: while tracking, a fix of acceptable accuracy that jumps more than      *)
(* MAX_JUMP_METERS from the last raw coordinate less than                      *)
(* MIN_TIME_BETWEEN_FIXES after the last update is rejected by the reported    *)
(* pipeline, which keeps its state and its reported location and shows the     *)
(* outlier status; a fix that fails either condition is not rejected.          *)
C11_OutlierGate ==
  [][TrackingStep
       => IF Jump > MAX_JUMP_METERS * 100 /\ SinceLastUpdate < MIN_TIME_BETWEEN_FIXES
          THEN /\ lastFix'.result = Null
               /\ backendStateRef' = backendStateRef
               /\ location' = location
               /\ gpsStatus' = "Filtering GPS outlier..."
          ELSE /\ lastFix'.result # Null
               /\ backendStateRef'.lastRawLat = lastFix'.lat
               /\ backendStateRef'.lastRawLng = lastFix'.lng]_vars

(* a 250 m jump was rejected 250 ms after the last update, the state being     *)
(* that of the fix before it                                                   *)
C11_Witness ==
  /\ backendStateRef # Null
  /\ lastFix.result = Null
  /\ ~AccuracyAbove(lastFix.accuracy, MAX_ACCURACY_METERS)
  /\ gpsStatus = "Filtering GPS outlier..."
  /\ clockMs - backendStateRef.lastUpdateTime = ClockTickMs
  /\ haversineDistance(backendStateRef.lastRawLat, backendStateRef.lastRawLng,
                       lastFix.lat, lastFix.lng) > MAX_JUMP_METERS * 100

DisplayJump ==
  haversineDistance(smoothingState["ambulance"].lastRawLat,
                    smoothingState["ambulance"].lastRawLng,
                    displayLocation.latitude, displayLocation.longitude)

(* C12: while tracking, a fix that passes the accuracy and outlier gates and   *)
(* lies nearer than the movement threshold to the last raw coordinate is held: *)
(* the output is the accepted coordinate, which stays as it was, and the last  *)
(* raw coordinate and the timestamp become those of the fix.  The display      *)
(* pipeline does the same with its own threshold.                              *)
C12_MovementGate ==
  [][/\ (/\ TrackingStep
         /\ ~(Jump > MAX_JUMP_METERS * 100 /\ SinceLastUpdate < MIN_TIME_BETWEEN_FIXES)
         /\ Jump < BACKEND_MOVEMENT_THRESHOLD_METERS * 100)
          => /\ lastFix'.result # Null
             /\ lastFix'.result.status = "held"
             /\ lastFix'.result.coords = [latitude |-> backendStateRef.lat,
                                          longitude |-> backendStateRef.lng]
             /\ location' = lastFix'.result.coords
             /\ backendStateRef' = [lat |-> backendStateRef.lat, lng |-> backendStateRef.lng,
                                    lastRawLat |-> lastFix'.lat, lastRawLng |-> lastFix'.lng,
                                    lastUpdateTime |-> clockMs]
     /\ (/\ UpdateMarkers
         /\ Tracked("ambulance")
         /\ DisplayJump < DISPLAY_MOVEMENT_THRESHOLD_METERS * 100)
          => smoothingState'["ambulance"] =
               [lat |-> smoothingState["ambulance"].lat,
                lng |-> smoothingState["ambulance"].lng,
                lastRawLat |-> displayLocation.latitude,
                lastRawLng |-> displayLocation.longitude,
                lastUpdateTime |-> clockMs]]_vars

(* a fix 3 m from the last raw one was held by both pipelines, later than the  *)
(* fix before it: the accepted coordinates stayed, the raw ones and the        *)
(* timestamps moved                                                            *)
C12_Witness ==
  /\ backendStateRef # Null
  /\ lastFix.result # Null
  /\ lastFix.result.status = "held"
  /\ backendStateRef.lastRawLng = lastFix.lng
  /\ backendStateRef.lng # lastFix.lng
  /\ backendStateRef.lastUpdateTime > 0
  /\ Tracked("ambulance")
  /\ smoothingState["ambulance"].lastRawLng = lastFix.lng
  /\ smoothingState["ambulance"].lng # lastFix.lng
  /\ smoothingState["ambulance"].lastUpdateTime > 0

(* the reported state after a fix, from the reported state before it alone *)
ReportedAfter(previous, lat, lng, accuracy) ==
  LET result == processBackendUpdate(lat, lng, accuracy, previous)
  IN IF result = Null THEN previous
     ELSE updateBackendState(lat, lng, result.coords.latitude, result.coords.longitude,
                             previous)

(* C13: the two pipelines keep separate state.  A fix handed to the reported   *)
(* pipeline leaves the display state as it is and gives a reported state that  *)
(* is a function of the reported state, the raw fix and the clock; a marker    *)
(* update leaves the reported state and location as they are and gives a       *)
(* display state that is a function of the display state, the raw fix and the  *)
(* clock.                                                                      *)
C13_ProfilesSeparate ==
  [][/\ WatchStep
          => /\ smoothingState' = smoothingState
             /\ backendStateRef' =
                  ReportedAfter(backendStateRef, lastFix'.lat, lastFix'.lng,
                                lastFix'.accuracy)
             /\ displayLocation' = [latitude |-> lastFix'.lat, longitude |-> lastFix'.lng]
     /\ UpdateMarkers
          => /\ backendStateRef' = backendStateRef
             /\ location' = location
             /\ DOMAIN smoothingState' = {"ambulance"}
             /\ smoothingState'["ambulance"] =
                  smoothCoordinate(lastFix.lat, lastFix.lng,
                                   IF Tracked("ambulance") THEN smoothingState["ambulance"]
                                   ELSE Null)]_vars

(* the same two fixes, 12 m apart, left the reported pipeline 2.4 m and the    *)
(* display pipeline 3.6 m from the first                                       *)
C13_Witness ==
  /\ backendStateRef # Null
  /\ Tracked("ambulance")
  /\ backendStateRef.lastRawLat = smoothingState["ambulance"].lastRawLat
  /\ backendStateRef.lastRawLat = 1200
  /\ backendStateRef.lat = Scaled(BACKEND_SMOOTHING_ALPHA_TENTHS, 1200)
  /\ smoothingState["ambulance"].lat = Scaled(DISPLAY_SMOOTHING_ALPHA_TENTHS, 1200)
  /\ backendStateRef.lat # smoothingState["ambulance"].lat

(***************************************************************************)
(* Map specification: RealtimeMap given the markers of several entities,   *)
(* as the police page gives it.                                            *)
(***************************************************************************)
MarkerIds == {"police", "ambulance"}

MarkerCoords == {<<0, 0>>, <<300, 0>>, <<1200, 0>>}

MarkerProps ==
  UNION {[ids -> {[lat |-> c[1], lng |-> c[2]] : c \in MarkerCoords}] : ids \in SUBSET MarkerIds}

MaxEffects == 3

MarkersEffect ==
  /\ effectCount < MaxEffects
  /\ effectCount' = effectCount + 1
  /\ \E markers \in MarkerProps : updateMarkers(markers)
  /\ UNCHANGED <<backendStateRef, displayLocation, location, gpsStatus, lastFix, fixCount,
                 clockMs, queryResult, staleView, distanceView,
                 sosActive, sosTimer, mySOSAlert, previousAlertIds, audioAvailable, polledAlerts, played>>
  /\ UNCHANGED backendVars

MapNext ==
  \/ MarkersEffect
  \/ ClockTick

SpecMap == Init /\ [][MapNext]_vars

(***************************************************************************)
(* Properties of per-entity conditioning state                             *)
(***************************************************************************)
EffectStep == effectCount' = effectCount + 1

SameRaw(s1, s2) == s1.lastRawLat = s2.lastRawLat /\ s1.lastRawLng = s2.lastRawLng

(* entity b keeps its raw coordinate in a step in which another entity gets a *)
(* state or a new raw coordinate                                              *)
OtherEntityFix(b) ==
  /\ b \in DOMAIN smoothingState
  /\ b \in DOMAIN smoothingState'
  /\ SameRaw(smoothingState'[b], smoothingState[b])
  /\ \E a \in DOMAIN smoothingState' \ {b} :
       a \notin DOMAIN smoothingState \/ ~SameRaw(smoothingState'[a], smoothingState[a])

C15_TimestampMonotonic ==
  [][/\ backendStateRef # Null
          => /\ backendStateRef' # Null
             /\ backendStateRef'.lastUpdateTime >= backendStateRef.lastUpdateTime
             /\ backendStateRef'.lastUpdateTime <= clockMs'
             /\ (WatchStep /\ lastFix'.result = Null)
                  => backendStateRef'.lastUpdateTime = backendStateRef.lastUpdateTime
             /\ (WatchStep /\ lastFix'.result # Null)
                  => backendStateRef'.lastUpdateTime = clockMs
     /\ \A id \in DOMAIN smoothingState \cap DOMAIN smoothingState' :
          smoothingState'[id].lastUpdateTime >= smoothingState[id].lastUpdateTime]_vars

(* three fixes: the last was rejected 250 ms after a fix that was accepted    *)
(* 250 ms after the start, and the timestamp is that of the accepted one      *)
C15_Witness ==
  /\ fixCount = 3
  /\ backendStateRef # Null
  /\ lastFix.result = Null
  /\ backendStateRef.lastUpdateTime = ClockTickMs
  /\ backendStateRef.lat # backendStateRef.lastRawLat
  /\ clockMs = 2 * ClockTickMs

(***************************************************************************)
(* Range specification: the canister's location and SOS calls given        *)
(* coordinates in and out of the valid range.  90 degrees of latitude are  *)
(* MaxLatitudeMeters of arc.                                               *)
(***************************************************************************)
MaxLatitudeMeters == 10007543

MaxLongitudeMeters == 2 * MaxLatitudeMeters

OutOfRangeCoord == Coord(MaxLatitudeMeters + 100000, 0)

WideCoords == {Coord(0, 0), OutOfRangeCoord}

StoreAmbulanceLocation ==
  /\ \E caller \in Principals : \E c \in WideCoords : updateAmbulanceLocation(caller, c)
  /\ UNCHANGED gpsVars

StorePoliceLocation ==
  /\ \E caller \in PolicePrincipals : \E c \in WideCoords : updatePoliceLocation(caller, c)
  /\ UNCHANGED gpsVars

RaiseSOS ==
  /\ \E caller \in Principals : \E c \in WideCoords : triggerSOS(caller, c)
  /\ UNCHANGED gpsVars

RangeNext ==
  \/ SaveCallerUserProfile
  \/ StoreAmbulanceLocation
  \/ StorePoliceLocation
  \/ RaiseSOS

SpecRange == Init /\ [][RangeNext]_vars

InRange(c) ==
  /\ Abs(c.latitude) <= MaxLatitudeMeters
  /\ Abs(c.longitude) <= MaxLongitudeMeters

(* C16: no stored ambulance location, police location or SOS alert holds a    *)
(* coordinate with latitude outside [-90, 90] or longitude outside            *)
(* [-180, 180].                                                               *)
C16_StoredCoordinatesInRange ==
  /\ \A a \in DOMAIN ambulanceLocations : InRange(ambulanceLocations[a].coordinates)
  /\ \A p \in DOMAIN policeLocations : InRange(policeLocations[p].coordinates)
  /\ \A a \in DOMAIN sosAlerts : InRange(sosAlerts[a].coordinates)

(* an out-of-range coordinate is stored as it was given, as a police location *)
(* and as an SOS position, and was used to select the target                  *)
C16_Witness ==
  \E a \in DOMAIN sosAlerts : \E p \in DOMAIN policeLocations :
    /\ sosAlerts[a].coordinates = OutOfRangeCoord
    /\ policeLocations[p].coordinates = OutOfRangeCoord
    /\ sosAlerts[a].targetPolice = <<p>>
    /\ a \in DOMAIN ambulanceLocations
    /\ ambulanceLocations[a].coordinates = OutOfRangeCoord

(***************************************************************************)
(* Properties of the conditioner's result                                  *)
(***************************************************************************)
PoorFix == AccuracyAbove(lastFix'.accuracy, MAX_ACCURACY_METERS)

OutlierFix ==
  /\ ~PoorFix
  /\ backendStateRef # Null
  /\ Jump > MAX_JUMP_METERS * 100
  /\ SinceLastUpdate < MIN_TIME_BETWEEN_FIXES

(* the outcome of the coming fix, as the spec names it *)
Outcome ==
  IF PoorFix THEN "rejected(poor_accuracy)"
  ELSE IF backendStateRef = Null THEN "initial"
  ELSE IF OutlierFix THEN "rejected(outlier)"
  ELSE IF Jump < BACKEND_MOVEMENT_THRESHOLD_METERS * 100 THEN "held"
  ELSE "smoothed"

(* C17 as stated: the result of every conditioner call carries a status that  *)
(* names the outcome, the two rejections included.                            *)
C17_ResultNamesOutcome ==
  [][WatchStep => lastFix'.result # Null /\ lastFix'.result.status = Outcome]_vars

(* C17: every conditioner call returns.  An accepted fix returns a status     *)
(* initial, held or smoothed that names the outcome; both rejections return   *)
(* the same null, which names neither, and the caller tells them apart by     *)
(* testing the accuracy again: it shows poor accuracy for a fix of poor       *)
(* accuracy and an outlier for any other rejected fix.                        *)
C17_RejectionsReturnNull ==
  [][WatchStep
       => IF Outcome \in {"rejected(poor_accuracy)", "rejected(outlier)"}
          THEN /\ lastFix'.result = Null
               /\ gpsStatus' = IF PoorFix THEN "GPS accuracy poor"
                               ELSE "Filtering GPS outlier..."
          ELSE /\ lastFix'.result # Null
               /\ lastFix'.result.status = Outcome
               /\ gpsStatus' = "GPS active"]_vars

(* a fix of poor accuracy that also jumped 250 m within 250 ms returned null  *)
(* and is shown as poor accuracy                                              *)
C17_Witness ==
  /\ backendStateRef # Null
  /\ lastFix.result = Null
  /\ AccuracyAbove(lastFix.accuracy, MAX_ACCURACY_METERS)
  /\ haversineDistance(backendStateRef.lastRawLat, backendStateRef.lastRawLng,
                       lastFix.lat, lastFix.lng) > MAX_JUMP_METERS * 100
  /\ clockMs - backendStateRef.lastUpdateTime < MIN_TIME_BETWEEN_FIXES
  /\ gpsStatus = "GPS accuracy poor"

(***************************************************************************)
(* Backend: radius queries over the ambulance location store               *)
(***************************************************************************)
(* a filter that leaves out a record at exactly the radius *)
insideRadius(center, radius, loc) == calculateDistance(center, loc.coordinates) < radius

(* a filter with the comparison turned around *)
beyondRadius(center, radius, loc) == calculateDistance(center, loc.coordinates) >= radius

inRadius(center, radius, loc) == calculateDistance(center, loc.coordinates) <= radius

radiusQueryTraps(caller) ==
  ~hasPermission(caller) \/ (~isPolice(caller) /\ ~isAdmin(caller))

locationsInRadius(center, radius) ==
  LET allLocations == toArray(DOMAIN ambulanceLocations)
      filtered == SelectSeq(allLocations,
                            LAMBDA id : inRadius(center, radius, ambulanceLocations[id]))
  IN [i \in 1..Len(filtered) |->
        <<filtered[i], ambulanceLocations[filtered[i]],
          calculateDistance(center, ambulanceLocations[filtered[i]].coordinates)>>]

(* the filtered entries left as the store lists them *)
unsortedEntries(entries) == entries

sortedEntries(entries) == sortByDistance(entries)

locationsOf(entries) == [i \in 1..Len(entries) |-> entries[i][2]]

getLocationsInRadius(caller, center, radius) ==
  IF radiusQueryTraps(caller) THEN Trapped
  ELSE Returned(locationsOf(locationsInRadius(center, radius)))

getSortedLocationsInRadius(caller, center, radius) ==
  IF radiusQueryTraps(caller) THEN Trapped
  ELSE Returned(locationsOf(sortedEntries(locationsInRadius(center, radius))))

getLocationsCountInRadius(caller, center, radius) ==
  IF radiusQueryTraps(caller) THEN Trapped
  ELSE Returned(Len(locationsInRadius(center, radius)))

(***************************************************************************)
(* Radius specification: three ambulances report locations, and callers    *)
(* run the three radius queries.  A query is read-only: it records its     *)
(* reply and leaves every store alone.                                     *)
(***************************************************************************)
RadiusAmbulances == {2, 3, 7}

RadiusCallers == {Anon, Admin, 2, 4}

RadiusCoords(p) ==
  IF p = 2 THEN {Coord(40, 0), Coord(10, 0)}
  ELSE IF p = 3 THEN {Coord(-10, 0), Coord(70, 0)}
  ELSE {Coord(10, 0)}

Centers == {Coord(0, 0), Coord(40, 0)}

Radii == {10, 40}

RegisterUnit ==
  /\ \E caller \in RadiusAmbulances \cup {4} :
       saveCallerUserProfile(caller,
                             [name |-> "unit", phoneNumber |-> ValidPhone,
                              role |-> IF caller \in RadiusAmbulances THEN "ambulance"
                                       ELSE "police"])
  /\ UNCHANGED gpsVars

ReportAmbulanceLocation ==
  /\ \E caller \in RadiusAmbulances : \E c \in RadiusCoords(caller) :
       updateAmbulanceLocation(caller, c)
  /\ UNCHANGED gpsVars

Reply(query, caller, center, radius, value) ==
  [query |-> query, caller |-> caller, center |-> center, radius |-> radius, value |-> value]

GetLocationsInRadius ==
  /\ \E caller \in RadiusCallers : \E center \in Centers : \E radius \in Radii :
       queryResult' = Reply("getLocationsInRadius", caller, center, radius,
                            getLocationsInRadius(caller, center, radius))
  /\ UNCHANGED backendVars
  /\ UNCHANGED <<backendStateRef, smoothingState, displayLocation, location, gpsStatus,
                 lastFix, fixCount, clockMs, effectCount, staleView, distanceView,
                 sosActive, sosTimer, mySOSAlert, previousAlertIds, audioAvailable, polledAlerts, played>>

GetSortedLocationsInRadius ==
  /\ \E caller \in RadiusCallers : \E center \in Centers : \E radius \in Radii :
       queryResult' = Reply("getSortedLocationsInRadius", caller, center, radius,
                            getSortedLocationsInRadius(caller, center, radius))
  /\ UNCHANGED backendVars
  /\ UNCHANGED <<backendStateRef, smoothingState, displayLocation, location, gpsStatus,
                 lastFix, fixCount, clockMs, effectCount, staleView, distanceView,
                 sosActive, sosTimer, mySOSAlert, previousAlertIds, audioAvailable, polledAlerts, played>>

GetLocationsCountInRadius ==
  /\ \E caller \in RadiusCallers : \E center \in Centers : \E radius \in Radii :
       queryResult' = Reply("getLocationsCountInRadius", caller, center, radius,
                            getLocationsCountInRadius(caller, center, radius))
  /\ UNCHANGED backendVars
  /\ UNCHANGED <<backendStateRef, smoothingState, displayLocation, location, gpsStatus,
                 lastFix, fixCount, clockMs, effectCount, staleView, distanceView,
                 sosActive, sosTimer, mySOSAlert, previousAlertIds, audioAvailable, polledAlerts, played>>

RadiusNext ==
  \/ RegisterUnit
  \/ ReportAmbulanceLocation
  \/ GetLocationsInRadius
  \/ GetSortedLocationsInRadius
  \/ GetLocationsCountInRadius

SpecRadius == Init /\ [][RadiusNext]_vars

(***************************************************************************)
(* Properties of the radius queries                                        *)
(***************************************************************************)
StoredWithin(center, radius) ==
  {ambulanceLocations[id] : id \in {x \in DOMAIN ambulanceLocations :
     calculateDistance(center, ambulanceLocations[x].coordinates) <= radius}}

ShapesAgree(caller, center, radius) ==
  LET plain == getLocationsInRadius(caller, center, radius)
      sorted == getSortedLocationsInRadius(caller, center, radius)
      count == getLocationsCountInRadius(caller, center, radius)
  IN /\ plain.status = sorted.status
     /\ plain.status = count.status
     /\ plain.status = "ok"
          => /\ Len(sorted.value) = Len(plain.value)
             /\ Range(sorted.value) = Range(plain.value)
             /\ Cardinality(Range(plain.value)) = Len(plain.value)
             /\ count.value = Len(plain.value)
             /\ Range(plain.value) = StoredWithin(center, radius)

SameCall ==
  /\ queryResult # Null
  /\ queryResult'.query = queryResult.query
  /\ queryResult'.caller = queryResult.caller
  /\ queryResult'.center = queryResult.center
  /\ queryResult'.radius = queryResult.radius

QueryStep ==
  /\ queryResult' # Null
  /\ ~(/\ SameCall
       /\ queryResult'.value.status = queryResult.value.status
       /\ queryResult'.value.value = queryResult.value.value)

(* C18: for the same caller, center, radius and store the three radius        *)
(* queries trap together or return together; the sorted list is a permutation *)
(* of the plain list, the count is the length of that list, and the members   *)
(* are exactly the stored records at distance <= radius.  A query step leaves *)
(* every backend store as it was.                                             *)
C18_RadiusQueriesAgree ==
  [][QueryStep
       => /\ UNCHANGED backendVars
          /\ ShapesAgree(queryResult'.caller, queryResult'.center, queryResult'.radius)]_vars

(* a sorted reply of two records in another order than the plain list, one of *)
(* them at exactly the radius, while a third record lies outside              *)
C18_Witness ==
  /\ queryResult # Null
  /\ queryResult.query = "getSortedLocationsInRadius"
  /\ queryResult.value.status = "ok"
  /\ Len(queryResult.value.value) = 2
  /\ queryResult.value
       # getLocationsInRadius(queryResult.caller, queryResult.center, queryResult.radius)
  /\ \E i \in 1..2 :
       calculateDistance(queryResult.center, queryResult.value.value[i].coordinates)
         = queryResult.radius
  /\ \E id \in DOMAIN ambulanceLocations :
       calculateDistance(queryResult.center, ambulanceLocations[id].coordinates)
         > queryResult.radius

SortedSequence(center, radius) == locationsOf(sortedEntries(locationsInRadius(center, radius)))

OrderedByDistanceThenId(center, s) ==
  \A i \in 1..Len(s) : \A j \in 1..Len(s) :
    i < j =>
      LET di == calculateDistance(center, s[i].coordinates)
          dj == calculateDistance(center, s[j].coordinates)
      IN di <= dj /\ (di = dj => s[i].ambulanceId < s[j].ambulanceId)

(* C19: the sorted query returns its records in non-decreasing distance from  *)
(* the center, records at equal distance in ascending order of ambulance id;  *)
(* the returned sequence is a function of the center, the radius and the      *)
(* location store alone, so a repeated call on the same store returns it      *)
(* again.                                                                     *)
C19_SortedByDistanceThenId ==
  [][(/\ QueryStep
      /\ queryResult'.query = "getSortedLocationsInRadius"
      /\ queryResult'.value.status = "ok")
       => /\ OrderedByDistanceThenId(queryResult'.center, queryResult'.value.value)
          /\ queryResult'.value.value
               = SortedSequence(queryResult'.center, queryResult'.radius)]_vars

(* a sorted reply of three records: two at equal distance in id order, ahead  *)
(* of the record with the lowest id, which is farther                         *)
C19_Witness ==
  /\ queryResult # Null
  /\ queryResult.query = "getSortedLocationsInRadius"
  /\ queryResult.value.status = "ok"
  /\ Len(queryResult.value.value) = 3
  /\ LET s == queryResult.value.value
         d(i) == calculateDistance(queryResult.center, s[i].coordinates)
     IN /\ d(1) = d(2)
        /\ d(2) < d(3)
        /\ s[1].ambulanceId < s[2].ambulanceId
        /\ s[3].ambulanceId < s[1].ambulanceId

(***************************************************************************)
(* Police client: staleness of an ambulance location record.  A record's   *)
(* timestamp is kept in microseconds (the code divides nanoseconds by      *)
(* 1_000_000 and gets fractional milliseconds); Date.now() is in           *)
(* milliseconds.                                                           *)
(***************************************************************************)
OFFLINE_THRESHOLD_MS == 60000

MicrosPerMs == 1000

(* PoliceInterface: ambulancesWithStatus *)
isOffline(timestamp, nowMs) ==
  nowMs * MicrosPerMs - timestamp > StalenessThresholdSec * 1000 * MicrosPerMs

(* earlier PoliceInterface: the filter of the nearby list; new Date(...)    *)
(* drops the fraction of a millisecond                                      *)
keptNearby(timestamp, nowMs) ==
  LET getTime == timestamp \div MicrosPerMs
      secondsAgo == (nowMs - getTime) \div 1000
  IN secondsAgo <= StalenessThresholdSec

(* PoliceInterface of part_012: onlineAmbulances *)
isOnline(timestamp, nowMs) ==
  nowMs * MicrosPerMs - timestamp < OFFLINE_THRESHOLD_MS * MicrosPerMs

Timestamps == {0, 500, 1000 * MicrosPerMs}

ShortClocks == {14999, 15000, 15001, 15999, 16000, 16001, 17000, 30000}

LongClocks == {59999, 60000, 60001, 61000}

View(consumer, timestamp, nowMs, thresholdMs, stale) ==
  [consumer |-> consumer, timestamp |-> timestamp, now |-> nowMs,
   thresholdMs |-> thresholdMs, stale |-> stale]

staleOthers == <<backendStateRef, smoothingState, displayLocation, location, gpsStatus,
                 lastFix, fixCount, clockMs, effectCount, queryResult, distanceView,
                 sosActive, sosTimer, mySOSAlert, previousAlertIds, audioAvailable, polledAlerts, played>>

ShowAmbulanceStatus ==
  /\ \E timestamp \in Timestamps : \E nowMs \in ShortClocks \cup LongClocks :
       staleView' = View("ambulancesWithStatus", timestamp, nowMs,
                         StalenessThresholdSec * 1000, isOffline(timestamp, nowMs))
  /\ UNCHANGED backendVars
  /\ UNCHANGED staleOthers

FilterNearby ==
  /\ \E timestamp \in Timestamps : \E nowMs \in ShortClocks \cup LongClocks :
       staleView' = View("ambulances", timestamp, nowMs,
                         StalenessThresholdSec * 1000, ~keptNearby(timestamp, nowMs))
  /\ UNCHANGED backendVars
  /\ UNCHANGED staleOthers

SplitOnlineOffline ==
  /\ \E timestamp \in Timestamps : \E nowMs \in ShortClocks \cup LongClocks :
       staleView' = View("onlineAmbulances", timestamp, nowMs,
                         OFFLINE_THRESHOLD_MS, ~isOnline(timestamp, nowMs))
  /\ UNCHANGED backendVars
  /\ UNCHANGED staleOthers

StaleNext ==
  \/ ShowAmbulanceStatus
  \/ FilterNearby
  \/ SplitOnlineOffline

SpecStale == Init /\ [][StaleNext]_vars

(* the age of the classified record, in microseconds *)
AgeMicros == staleView.now * MicrosPerMs - staleView.timestamp

(* C20: every consumer classifies a record stale exactly when its age is      *)
(* strictly greater than the consumer's threshold, so a record whose age      *)
(* equals the threshold is not stale.                                         *)
C20_StaleIffOlderThanThreshold ==
  staleView # Null
    => (staleView.stale <=> AgeMicros > staleView.thresholdMs * MicrosPerMs)

(* a record whose age equals the threshold of 60 s, shown as offline          *)
C20_Witness ==
  /\ staleView # Null
  /\ staleView.consumer = "onlineAmbulances"
  /\ AgeMicros = OFFLINE_THRESHOLD_MS * MicrosPerMs
  /\ staleView.stale

(***************************************************************************)
(* Properties of the canister under interleaved calls                      *)
(***************************************************************************)
NearestFirstIn(pool, c, targets) ==
  LET d == [p \in DOMAIN pool |-> calculateDistance(c, pool[p].coordinates)]
      eligible == {p \in DOMAIN pool : d[p] <= SosRadiusMeters}
      selected == Range(targets)
      before(p, q) == d[p] < d[q] \/ (d[p] = d[q] /\ p < q)
  IN /\ selected \subseteq eligible
     /\ Len(targets) = Min(SosTargetCount, Cardinality(eligible))
     /\ \A i, j \in 1..Len(targets) : i < j => before(targets[i], targets[j])
     /\ \A p \in eligible \ selected : \A q \in selected : before(q, p)

(* C21: a triggerSOS call is one step of the canister: the police location    *)
(* store is the same before and after it, and the targets it records satisfy  *)
(* the radius and nearest-first conditions against the store as it is when    *)
(* the alert is recorded, whatever calls come before and after.               *)
C21_SingleView ==
  [][sosAlerts' # sosAlerts
       => \A caller \in Principals : \A c \in SosCoords :
            Triggered(caller, c)
              => /\ policeLocations' = policeLocations
                 /\ NearestFirstIn(policeLocations', c, sosAlerts'[caller].targetPolice)]_vars

(* an alert recorded in the same instant as a police location update, with    *)
(* an older police location also stored: both are its targets                 *)
C21_Witness ==
  \E a \in DOMAIN sosAlerts :
    /\ now > 0
    /\ sosAlerts[a].active
    /\ sosAlerts[a].timestamp = now
    /\ Len(sosAlerts[a].targetPolice) = 2
    /\ \E p, q \in Range(sosAlerts[a].targetPolice) :
         /\ policeLocations[p].timestamp = now
         /\ policeLocations[q].timestamp < now

(***************************************************************************)
(* Ambulance client: the SOS button, its auto-deactivation timer and the   *)
(* sync with the backend (AmbulanceInterface).  The client runs for one    *)
(* ambulance principal.  A pending window timeout is kept with the time it *)
(* still has to run.                                                       *)
(***************************************************************************)
SOS_DURATION == 60000

SosTickMs == SOS_DURATION \div 3

AmbulanceClient == CHOOSE a \in AmbulancePrincipals : TRUE

(* the client's location, in centimetres, as the backend's metres *)
sentCoordinates(c) == Coord(c.latitude \div 100, c.longitude \div 100)

deactivateSOSTraps(caller) ==
  \/ ~hasPermission(caller)
  \/ caller \notin DOMAIN sosAlerts
  \/ sosAlerts[caller].ambulanceId # caller

handleSOSClick(callFails) ==
  IF sosActive
  THEN IF callFails \/ deactivateSOSTraps(AmbulanceClient)
       THEN UNCHANGED <<backendVars, sosActive, sosTimer>>
       ELSE /\ deactivateSOS(AmbulanceClient)
            /\ sosActive' = FALSE
            /\ sosTimer' = Null
  ELSE IF callFails \/ triggerSOSTraps(AmbulanceClient)
       THEN UNCHANGED <<backendVars, sosActive, sosTimer>>
       ELSE /\ triggerSOS(AmbulanceClient, sentCoordinates(location))
            /\ sosActive' = TRUE
            /\ sosTimer' = [remaining |-> SOS_DURATION, pending |-> TRUE]

(* the callback of the auto-deactivation timeout *)
sosTimeout(callFails) ==
  IF callFails \/ deactivateSOSTraps(AmbulanceClient)
  THEN /\ sosTimer' = [sosTimer EXCEPT !.pending = FALSE]
       /\ UNCHANGED <<backendVars, sosActive>>
  ELSE /\ deactivateSOS(AmbulanceClient)
       /\ sosActive' = FALSE
       /\ sosTimer' = Null

(* useGetMySOSAlert: an Unauthorized error is turned into null *)
fetchMySOSAlert ==
  LET reply == getSOSAlert(AmbulanceClient, AmbulanceClient)
  IN IF reply.status = "trap" THEN Null
     ELSE IF reply.value = <<>> THEN Null
     ELSE reply.value[1]

(* the effect "Sync SOS state with backend", run when mySOSAlert changes *)
syncSOS(data) ==
  IF data # Null /\ data.active
  THEN sosActive' = TRUE /\ UNCHANGED sosTimer
  ELSE IF sosActive /\ data # Null /\ ~data.active
  THEN sosActive' = FALSE /\ sosTimer' = Null
  ELSE UNCHANGED <<sosActive, sosTimer>>

policeClientVars == <<previousAlertIds, audioAvailable, polledAlerts, played>>

gpsClientVars == <<backendStateRef, smoothingState, displayLocation, location, gpsStatus,
                   lastFix, fixCount, clockMs>>

otherViews == <<effectCount, queryResult, staleView, distanceView>>

RegisterAmbulance ==
  /\ saveCallerUserProfile(AmbulanceClient,
                           [name |-> "unit", phoneNumber |-> ValidPhone, role |-> "ambulance"])
  /\ UNCHANGED <<gpsClientVars, otherViews, policeClientVars, sosActive, sosTimer, mySOSAlert>>

AcquireLocation ==
  /\ fixCount = 0
  /\ WatchPosition

HandleSOSClick ==
  /\ location # Null
  /\ \E callFails \in BOOLEAN : handleSOSClick(callFails)
  /\ UNCHANGED <<gpsClientVars, otherViews, policeClientVars, mySOSAlert>>

SosTimerTick ==
  /\ sosTimer # Null
  /\ sosTimer.pending
  /\ sosTimer.remaining > 0
  /\ sosTimer' = [sosTimer EXCEPT !.remaining = @ - SosTickMs]
  /\ UNCHANGED <<backendVars, gpsClientVars, otherViews, policeClientVars, sosActive,
                 mySOSAlert>>

SosTimerFires ==
  /\ sosTimer # Null
  /\ sosTimer.pending
  /\ sosTimer.remaining <= 0
  /\ \E callFails \in BOOLEAN : sosTimeout(callFails)
  /\ UNCHANGED <<gpsClientVars, otherViews, policeClientVars, mySOSAlert>>

PollMySOSAlert ==
  /\ mySOSAlert' = fetchMySOSAlert
  /\ IF fetchMySOSAlert # mySOSAlert
     THEN syncSOS(fetchMySOSAlert)
     ELSE UNCHANGED <<sosActive, sosTimer>>
  /\ UNCHANGED <<backendVars, gpsClientVars, otherViews, policeClientVars>>

AdminDeactivates ==
  /\ deactivateSOSForAmbulance(Admin, AmbulanceClient)
  /\ UNCHANGED <<gpsClientVars, otherViews, policeClientVars, sosActive, sosTimer, mySOSAlert>>

(* the page is loaded again: the component starts from its initial state and *)
(* the window's timers are gone                                            *)
ReloadPage ==
  /\ sosActive' = FALSE
  /\ sosTimer' = Null
  /\ mySOSAlert' = Null
  /\ backendStateRef' = Null
  /\ smoothingState' = EmptyMap
  /\ displayLocation' = Null
  /\ location' = Null
  /\ gpsStatus' = "Acquiring GPS..."
  /\ lastFix' = Null
  /\ fixCount' = 0
  /\ UNCHANGED <<backendVars, clockMs, otherViews, policeClientVars>>

SosNext ==
  \/ RegisterAmbulance
  \/ AcquireLocation
  \/ HandleSOSClick
  \/ SosTimerTick
  \/ SosTimerFires
  \/ PollMySOSAlert
  \/ AdminDeactivates
  \/ ReloadPage

(* the window runs a pending timeout: time passes and the callback is called *)
SpecSos ==
  /\ Init
  /\ [][SosNext]_vars
  /\ WF_vars(SosTimerTick)
  /\ WF_vars(SosTimerFires)

SosIsActive == AmbulanceClient \in DOMAIN sosAlerts /\ sosAlerts[AmbulanceClient].active

(* C22: an SOS alert that is active is eventually inactive.                  *)
C22_EventuallyDeactivated == SosIsActive ~> ~SosIsActive

(* the page was loaded again while the alert was active: the alert is active, *)
(* no timeout is pending and the button shows no active SOS                   *)
C22_Witness ==
  /\ SosIsActive
  /\ sosTimer = Null
  /\ ~sosActive

(***************************************************************************)
(* Police client: the sound for new SOS alerts (PoliceInterface).  played  *)
(* tells whether the last run of the effect called playAlertSound.         *)
(***************************************************************************)
PoliceClient == CHOOSE p \in PolicePrincipals : TRUE

AlertingAmbulances == {2, 3}

AlertIds(data) == {data[i].ambulanceId : i \in 1..Len(data)}

(* the earlier effect: no sound while the previous set is empty *)
newAlertsEffectEarlier(data, available, soundFails) ==
  LET currentAlertIds == AlertIds(data)
      newAlerts == SelectSeq(data, LAMBDA alert : alert.ambulanceId \notin previousAlertIds)
  IN /\ played' = (Len(newAlerts) > 0 /\ previousAlertIds # {})
     /\ audioAvailable' = available
     /\ previousAlertIds' = currentAlertIds

(* effect "Play alert sound for new SOS alerts"; playAlertSound turns the   *)
(* audio off when it throws                                                *)
newAlertsEffect(data, available, soundFails) ==
  IF ~available
  THEN /\ played' = FALSE
       /\ audioAvailable' = available
       /\ UNCHANGED previousAlertIds
  ELSE LET currentAlertIds == AlertIds(data)
           newAlerts == SelectSeq(data, LAMBDA alert : alert.ambulanceId \notin previousAlertIds)
       IN /\ played' = (Len(newAlerts) > 0)
          /\ audioAvailable' = ~(Len(newAlerts) > 0 /\ soundFails)
          /\ previousAlertIds' = currentAlertIds

(* useGetActiveSOSAlerts: a failed refetch keeps the data *)
fetchActiveSOSAlerts ==
  LET reply == getActiveSOSAlerts(PoliceClient)
  IN IF reply.status = "trap" THEN polledAlerts ELSE reply.value

sosClientVars == <<sosActive, sosTimer, mySOSAlert>>

RegisterUsers ==
  /\ \E caller \in AlertingAmbulances \cup {PoliceClient} :
       saveCallerUserProfile(caller,
                             [name |-> "unit", phoneNumber |-> ValidPhone,
                              role |-> IF caller = PoliceClient THEN "police"
                                       ELSE "ambulance"])
  /\ UNCHANGED gpsVars

SendPoliceLocation ==
  /\ \E c \in PoliceCoords(PoliceClient) : updatePoliceLocation(PoliceClient, c)
  /\ UNCHANGED gpsVars

AmbulanceTriggersSOS ==
  /\ \E caller \in AlertingAmbulances : triggerSOS(caller, Coord(0, 0))
  /\ UNCHANGED gpsVars

AmbulanceDeactivatesSOS ==
  /\ \E caller \in AlertingAmbulances : deactivateSOS(caller)
  /\ UNCHANGED gpsVars

PollActiveSOSAlerts ==
  /\ polledAlerts' = fetchActiveSOSAlerts
  /\ IF fetchActiveSOSAlerts # polledAlerts
     THEN \E soundFails \in BOOLEAN :
            newAlertsEffect(fetchActiveSOSAlerts, audioAvailable, soundFails)
     ELSE UNCHANGED <<previousAlertIds, audioAvailable, played>>
  /\ UNCHANGED <<backendVars, gpsClientVars, otherViews, sosClientVars>>

ToggleAudio ==
  /\ \E soundFails \in BOOLEAN : newAlertsEffect(polledAlerts, ~audioAvailable, soundFails)
  /\ UNCHANGED <<backendVars, gpsClientVars, otherViews, sosClientVars, polledAlerts>>

PoliceNext ==
  \/ RegisterUsers
  \/ SendPoliceLocation
  \/ AmbulanceTriggersSOS
  \/ AmbulanceDeactivatesSOS
  \/ PollActiveSOSAlerts
  \/ ToggleAudio

SpecPolice == Init /\ [][PoliceNext]_vars

PollStep == polledAlerts' # polledAlerts

(* C23: when a poll returns an alert of an ambulance that was not in the      *)
(* previously polled list and the audio is enabled, the effect plays the      *)
(* alert sound, also when the previously polled list was empty.               *)
C23_SoundForNewAlert ==
  [][(/\ PollStep
      /\ audioAvailable
      /\ AlertIds(polledAlerts') \ AlertIds(polledAlerts) # {})
       => played']_vars

(* two alerts are listed, the audio is on and the last run of the effect,     *)
(* which brought the list to two ambulances, played the sound                 *)
C23_Witness ==
  /\ played
  /\ audioAvailable
  /\ Len(polledAlerts) = 2
  /\ previousAlertIds = AlertingAmbulances

(***************************************************************************)
(* Properties of getSOSAlert                                               *)
(***************************************************************************)
(* C24: an ambulance that asks for the alert stored under its own id gets a   *)
(* reply, the stored alert or null when it has none, and never a trap.        *)
C24_OwnerReadsOwnAlert ==
  \A a \in AmbulancePrincipals :
    isAmbulance(a)
      => getSOSAlert(a, a) = IF a \in DOMAIN sosAlerts THEN Returned(<<sosAlerts[a]>>)
                             ELSE Returned(<<>>)

(* an ambulance with an active alert of its own is refused *)
C24_Witness ==
  \E a \in AmbulancePrincipals :
    /\ isAmbulance(a)
    /\ a \in DOMAIN sosAlerts
    /\ sosAlerts[a].active
    /\ getSOSAlert(a, a) = Trapped

(* C25: for the same caller, center and store, every record that              *)
(* getLocationsInRadius returns with a radius r1 is also returned with any    *)
(* larger radius r2.                                                          *)
C25_RadiusMonotone ==
  \A caller \in RadiusCallers : \A center \in Centers : \A r1 \in Radii : \A r2 \in Radii :
    r1 < r2
      => LET small == getLocationsInRadius(caller, center, r1)
             large == getLocationsInRadius(caller, center, r2)
         IN /\ small.status = large.status
            /\ small.status = "ok" => Range(small.value) \subseteq Range(large.value)

(* a reply for the smaller radius with a record in it, while the larger       *)
(* radius gives more records and one stored record is outside both            *)
C25_Witness ==
  /\ queryResult # Null
  /\ queryResult.query = "getLocationsInRadius"
  /\ queryResult.value.status = "ok"
  /\ Len(queryResult.value.value) = 1
  /\ \E r2 \in Radii :
       /\ queryResult.radius < r2
       /\ queryResult.value = getLocationsInRadius(queryResult.caller, queryResult.center,
                                                   queryResult.radius)
       /\ Len(getLocationsInRadius(queryResult.caller, queryResult.center, r2).value) = 2
       /\ Cardinality(DOMAIN ambulanceLocations) = 3

(***************************************************************************)
(* Distance specification: the two distance functions applied to pairs of  *)
(* points, each pair measured in both directions.  Backend points are in   *)
(* metres, frontend points in centimetres.                                 *)
(***************************************************************************)
DistancePoints ==
  {<<0, 0>>, <<30, 40>>, <<-30, 40>>, <<55, 0>>, <<0, -50>>, <<10, -10>>, <<300, 400>>,
   <<1200, 0>>}

Measured(function, a, b, forward, backward, self) ==
  [function |-> function, a |-> a, b |-> b, forward |-> forward, backward |-> backward,
   self |-> self]

distanceOthers == <<gpsClientVars, effectCount, queryResult, staleView, sosClientVars,
                    policeClientVars>>

MeasureBackend ==
  /\ \E a \in DistancePoints : \E b \in DistancePoints :
       distanceView' =
         Measured("calculateDistance", a, b,
                  calculateDistance(Coord(a[1], a[2]), Coord(b[1], b[2])),
                  calculateDistance(Coord(b[1], b[2]), Coord(a[1], a[2])),
                  calculateDistance(Coord(a[1], a[2]), Coord(a[1], a[2])))
  /\ UNCHANGED backendVars
  /\ UNCHANGED distanceOthers

MeasureFrontend ==
  /\ \E a \in DistancePoints : \E b \in DistancePoints :
       distanceView' =
         Measured("haversineDistance", a, b,
                  haversineDistance(a[1], a[2], b[1], b[2]),
                  haversineDistance(b[1], b[2], a[1], a[2]),
                  haversineDistance(a[1], a[2], a[1], a[2]))
  /\ UNCHANGED backendVars
  /\ UNCHANGED distanceOthers

DistanceNext ==
  \/ MeasureBackend
  \/ MeasureFrontend

SpecDistance == Init /\ [][DistanceNext]_vars

(* C26: the backend's calculateDistance and the frontend's haversineDistance  *)
(* give the same distance from a to b as from b to a, and distance 0 from a   *)
(* point to itself.                                                           *)
C26_DistanceSymmetric ==
  distanceView # Null
    => /\ distanceView.forward = distanceView.backward
       /\ distanceView.self = 0
       /\ distanceView.a = distanceView.b => distanceView.forward = 0

(* two different points off both axes measured by the backend: 50 m each way  *)
C26_Witness ==
  /\ distanceView # Null
  /\ distanceView.function = "calculateDistance"
  /\ distanceView.a = <<0, 0>>
  /\ distanceView.b = <<-30, 40>>
  /\ distanceView.forward = 50
  /\ distanceView.backward = 50

(***************************************************************************)
(* Further properties of GPS conditioning                                  *)
(***************************************************************************)
(* C27: a fix of unknown accuracy is never rejected for poor accuracy: its    *)
(* outcome is initial on the first fix, else rejected as an outlier, held or  *)
(* smoothed as the jump and the interval decide, the same as for a fix of     *)
(* known good accuracy.                                                       *)
C27_UnknownAccuracyPasses ==
  [][(WatchStep /\ ~lastFix'.accuracy.known)
       => /\ gpsStatus' # "GPS accuracy poor"
          /\ Outcome \in {"initial", "rejected(outlier)", "held", "smoothed"}
          /\ IF Outcome = "rejected(outlier)"
             THEN lastFix'.result = Null /\ gpsStatus' = "Filtering GPS outlier..."
             ELSE lastFix'.result # Null /\ lastFix'.result.status = Outcome
          /\ lastFix'.result
               = processBackendUpdate(lastFix'.lat, lastFix'.lng,
                                      [known |-> TRUE, meters |-> MAX_ACCURACY_METERS],
                                      backendStateRef)]_vars

(* a fix of unknown accuracy was smoothed *)
C27_Witness ==
  /\ lastFix # Null
  /\ ~lastFix.accuracy.known
  /\ lastFix.result # Null
  /\ lastFix.result.status = "smoothed"
  /\ gpsStatus = "GPS active"

(* C28: while tracking, a fix of acceptable accuracy that lies nearer than    *)
(* the movement threshold to the last raw fix is held and leaves the accepted *)
(* coordinate as it was, however far the fix is from the accepted coordinate; *)
(* the last raw fix becomes this one, so the next fix is measured from it.    *)
(* The display pipeline does the same with its threshold.                     *)
C28_GateFromLastRaw ==
  [][/\ (TrackingStep /\ Jump < BACKEND_MOVEMENT_THRESHOLD_METERS * 100)
          => /\ lastFix'.result # Null
             /\ lastFix'.result.status = "held"
             /\ backendStateRef'.lat = backendStateRef.lat
             /\ backendStateRef'.lng = backendStateRef.lng
             /\ location' = [latitude |-> backendStateRef.lat,
                             longitude |-> backendStateRef.lng]
             /\ backendStateRef'.lastRawLat = lastFix'.lat
             /\ backendStateRef'.lastRawLng = lastFix'.lng
     /\ (smoothingState' # smoothingState /\ Tracked("ambulance")
           /\ DisplayJump < DISPLAY_MOVEMENT_THRESHOLD_METERS * 100)
          => /\ smoothingState'["ambulance"].lat = smoothingState["ambulance"].lat
             /\ smoothingState'["ambulance"].lng = smoothingState["ambulance"].lng
             /\ smoothingState'["ambulance"].lastRawLat = displayLocation.latitude
             /\ smoothingState'["ambulance"].lastRawLng = displayLocation.longitude]_vars

(* two fixes of 6 m each were held: the raw position is 12 m from the         *)
(* accepted coordinate, beyond the threshold, and the accepted coordinate is  *)
(* still that of the first fix                                                *)
C28_Witness ==
  /\ backendStateRef # Null
  /\ lastFix.result # Null
  /\ lastFix.result.status = "held"
  /\ backendStateRef.lastRawLat = lastFix.lat
  /\ backendStateRef.lastRawLng = lastFix.lng
  /\ DistanceFrom(backendStateRef, lastFix.lat, lastFix.lng)
       >= BACKEND_MOVEMENT_THRESHOLD_METERS * 100
  /\ fixCount = MaxFixes

(* C29: a rejected fix leaves the reported pipeline's state, its              *)
(* lastUpdateTime included, as it was; and while tracking, a fix of           *)
(* acceptable or unknown accuracy that arrives MIN_TIME_BETWEEN_FIXES or more *)
(* after the last accepted fix is held or smoothed whatever its jump, after   *)
(* which the last raw fix and the timestamp are those of this fix.            *)
C29_RejectionEnds ==
  [][/\ (WatchStep /\ lastFix'.result = Null) => backendStateRef' = backendStateRef
     /\ (TrackingStep /\ SinceLastUpdate >= MIN_TIME_BETWEEN_FIXES)
          => /\ lastFix'.result # Null
             /\ lastFix'.result.status \in {"held", "smoothed"}
             /\ gpsStatus' = "GPS active"
             /\ backendStateRef'.lastRawLat = lastFix'.lat
             /\ backendStateRef'.lastRawLng = lastFix'.lng
             /\ backendStateRef'.lastUpdateTime = clockMs]_vars

(* a jump of more than MAX_JUMP_METERS was smoothed 500 ms after the first    *)
(* fix, a fix having been made in between                                     *)
C29_Witness ==
  /\ backendStateRef # Null
  /\ fixCount = MaxFixes
  /\ lastFix.result # Null
  /\ lastFix.result.status = "smoothed"
  /\ clockMs >= MIN_TIME_BETWEEN_FIXES
  /\ backendStateRef.lastUpdateTime = clockMs
  /\ DistanceFrom(backendStateRef, lastFix.lat, lastFix.lng) * 10
       > MAX_JUMP_METERS * 100 * (10 - BACKEND_SMOOTHING_ALPHA_TENTHS)

(***************************************************************************)
(* Calls specification: every update call of the canister, the admin's     *)
(* setUserProfile included, by every principal, at one instant of the      *)
(* canister's clock (no call's outcome depends on the time).               *)
(***************************************************************************)
SetUserProfile ==
  /\ \E caller \in Principals : \E user \in PolicePrincipals :
       \E profile \in ProfileInputs(user) : setUserProfile(caller, user, profile)
  /\ UNCHANGED gpsVars

CallsNext ==
  \/ SaveCallerUserProfile
  \/ SetUserProfile
  \/ UpdateAmbulanceLocation
  \/ UpdatePoliceLocation
  \/ TriggerSOS
  \/ DeactivateSOS
  \/ DeactivateSOSForAmbulance

SpecCalls == Init /\ [][CallsNext]_vars

Stores == <<userProfiles, ambulanceLocations, policeLocations, sosAlerts>>

NoPermission(caller) == ~hasPermission(caller)

BadPhone(profile) == ~validatePhoneNumber(profile.phoneNumber)

NoAlert(a) == a \notin DOMAIN sosAlerts

(* C30: a step that changes a store is never a call that fails: not a call    *)
(* without permission, not a location or SOS call by a caller of the wrong    *)
(* role, not a profile call with a phone number that is not 10 digits or a    *)
(* setUserProfile by a non-admin, and not a deactivation that finds no alert. *)
C30_FailedCallChangesNothing ==
  [][Stores' # Stores
       => \A caller \in Principals :
            /\ \A p \in Principals : \A profile \in ProfileInputs(p) :
                 /\ (NoPermission(caller) \/ BadPhone(profile))
                      => ~saveCallerUserProfile(caller, profile)
                 /\ (~isAdmin(caller) \/ BadPhone(profile))
                      => ~setUserProfile(caller, p, profile)
            /\ \A c \in AmbulanceCoords \cup SosCoords \cup PoliceCoords(caller) :
                 /\ (NoPermission(caller) \/ ~isAmbulance(caller))
                      => ~updateAmbulanceLocation(caller, c) /\ ~triggerSOS(caller, c)
                 /\ (NoPermission(caller) \/ ~isPolice(caller))
                      => ~updatePoliceLocation(caller, c)
            /\ (NoPermission(caller) \/ NoAlert(caller)) => ~deactivateSOS(caller)
            /\ \A a \in Principals :
                 (~isAdmin(caller) \/ NoAlert(a)) => ~deactivateSOSForAmbulance(caller, a)]_vars

(* every store holds something while a registered ambulance, a police unit    *)
(* without an alert and the anonymous caller can each make calls that fail    *)
C30_Witness ==
  /\ userProfiles # EmptyMap
  /\ ambulanceLocations # EmptyMap
  /\ policeLocations # EmptyMap
  /\ sosAlerts # EmptyMap
  /\ \E a \in AmbulancePrincipals : isAmbulance(a) /\ ~isPolice(a) /\ ~isAdmin(a)
  /\ \E p \in PolicePrincipals : isPolice(p) /\ NoAlert(p) /\ hasPermission(p)
  /\ NoPermission(Anon)

====
